---------------------------- MODULE Spec2Model ----------------------------
(***************************************************************************)
(* Model of the weekly collection leaderboard of egdata-api                *)
(* (src/src/routes/collections.tsx) and of its push subscriptions          *)
(* (src/src/routes/push.ts).                                               *)
(*                                                                         *)
(* Instants are JavaScript time values (milliseconds since the epoch)      *)
(* counted in ticks of one hour, because TLC's integers are 32 bits wide   *)
(* and a time value in milliseconds is not: an instant t of the model is   *)
(* the time value t * Tick.  Every constant of the source that is a        *)
(* number of milliseconds is a whole number of ticks.                      *)
(***************************************************************************)
EXTENDS Integers, Sequences, FiniteSets, TLC

VARIABLES
    wkArg,          \* getIsoWeekRangeUTC: the argument of the call under test
    wkRet,          \* getIsoWeekRangeUTC: what the call returned
    gamePositions,  \* the GamePosition documents of the collection, in the
                    \* order find() returns them
    rkWeek,         \* ranking: the week identifier of the request
    rkWeekly,       \* ranking: `ranked` of the weekly route
    rkOg,           \* ranking: `weeklyRanked` of the og route
    collectionDocs, \* the Collection documents
    offerDocs,      \* the Offer documents, in the order find() returns them
    priceDocs,      \* the PriceEngine documents, in the order find() returns them
    registry,       \* the documents of the tops-og collection: [imageId, hash]
    images,         \* the number of images the image store has been sent
    pushSubscriptions, \* the PushSubscription documents, in the order of
                    \* their insertion
    cache,          \* the Redis keys that hold a value: [key, value, ex]
    reqs            \* the requests in flight or answered, one per client

weekVars == <<wkArg, wkRet>>
rankVars == <<rkWeek, rkWeekly, rkOg>>
dbVars == <<collectionDocs, offerDocs, priceDocs, registry, images, pushSubscriptions>>
vars == <<wkArg, wkRet, gamePositions, rkWeek, rkWeekly, rkOg,
          collectionDocs, offerDocs, priceDocs, registry, images,
          pushSubscriptions, cache, reqs>>

(***************************************************************************)
(* Bounds and input sets                                                   *)
(***************************************************************************)
\* week numbers 00..MaxWeekNo are drawn for every sample year
MaxWeekNo == 60

\* sample years: the two-digit range of Date.UTC, century and leap-year
\* edges, the epoch, and the years the service has data for
YearInputs == {0, 50, 99, 100, 1600, 1899, 1900, 1969, 1970, 1999, 2000,
               2020, 2021, 2024, 2025, 2026, 2100, 9999}

\* the snapshots of a store: at most MaxSnapshots over all offers
MaxSnapshots == 2

\* the offers of the collection, in the order find() returns their documents
MaxOffers == 3
OfferIds == [i \in 1..MaxOffers |-> i]

\* the positions a snapshot records: 0 is "not ranked at that instant", and
\* a negative number stands for a malformed record
MaxPosition == 2
SnapPositions == (0 - 1)..MaxPosition

Digits == <<"0", "1", "2", "3", "4", "5", "6", "7", "8", "9">>

DigitChar(n) == Digits[n + 1]

\* the four-digit, the two-digit decimal numeral of a number, as characters
Numeral4(n) == <<DigitChar(n \div 1000), DigitChar((n \div 100) % 10),
                 DigitChar((n \div 10) % 10), DigitChar(n % 10)>>
Numeral2(n) == <<DigitChar((n \div 10) % 10), DigitChar(n % 10)>>

\* a week identifier is a string, modelled as its sequence of characters
WeekId(y, n) == Numeral4(y) \o <<"W">> \o Numeral2(n)

\* strings that are no week identifier
MalformedWeeks == { <<"2", "0", "2", "5", "W", "3">>,
                    <<"2", "0", "2", "5", "w", "3", "1">>,
                    <<"2", "0", "2", "5", "W", "3", "1", "0">>,
                    <<"2", "5", "W", "3", "1">>,
                    <<"2", "0", "2", "5", "-", "3", "1">>,
                    <<"2", "0", "2", "x", "W", "3", "1">>,
                    << >> }

WeekInputs == { WeekId(y, n) : y \in YearInputs, n \in 0..MaxWeekNo }
                  \cup MalformedWeeks

(***************************************************************************)
(* Time values                                                             *)
(***************************************************************************)
\* one tick of the model, in milliseconds
Tick == 3600 * 1000

\* 24 * 3600 * 1000 ms, in ticks
MsPerDay == (24 * 3600 * 1000) \div Tick

\* ECMAScript DayFromYear(y): the day number of January 1st of year y
DayFromYear(y) == 365 * (y - 1970) + ((y - 1969) \div 4)
                    - ((y - 1901) \div 100) + ((y - 1601) \div 400)

\* Date.UTC(year, 0, 4): a year of 0..99 means 1900 + year (ECMAScript
\* Date.UTC, step "If 0 <= y <= 99, let yr be 1900 + y")
DateUTCJan4(year) ==
    LET yr == IF 0 <= year /\ year <= 99 THEN 1900 + year ELSE year
    IN  (DayFromYear(yr) + 3) * MsPerDay

\* Date.prototype.getUTCDay: 0 = Sunday .. 6 = Saturday (the epoch is a Thursday)
GetUTCDay(t) == ((t \div MsPerDay) + 4) % 7

(***************************************************************************)
(* getIsoWeekRangeUTC                                                      *)
(***************************************************************************)
IsDigit(c) == \E i \in 1..10 : Digits[i] = c

\* Number() of one decimal digit
DigitValue(c) == (CHOOSE i \in 1..10 : Digits[i] = c) - 1

\* /^(\d{4})W(\d{2})$/.exec(week) succeeds
WeekRegexMatches(week) ==
    /\ Len(week) = 7
    /\ \A i \in {1, 2, 3, 4, 6, 7} : IsDigit(week[i])
    /\ week[5] = "W"

\* Number(m[1]), Number(m[2])
WeekYear(week) == 1000 * DigitValue(week[1]) + 100 * DigitValue(week[2])
                    + 10 * DigitValue(week[3]) + DigitValue(week[4])
WeekNumber(week) == 10 * DigitValue(week[6]) + DigitValue(week[7])

\* the value of a call that threw
Throw == [threw |-> TRUE]

getIsoWeekRangeUTC(week) ==
    IF ~WeekRegexMatches(week) THEN Throw
    ELSE
      LET year == WeekYear(week)
          wn == WeekNumber(week)
          jan4 == DateUTCJan4(year)
          jan4Day == GetUTCDay(jan4)
          isoMonOfWeek1 == jan4 - ((IF jan4Day = 0 THEN 6 ELSE jan4Day - 1) * MsPerDay)
          start == isoMonOfWeek1 + (wn - 1) * 7 * MsPerDay
          endExclusive == start + 7 * MsPerDay
      IN  [threw |-> FALSE, start |-> start, endExclusive |-> endExclusive]

(***************************************************************************)
(* Ranking (RankingEngine): the weekly route and the og route each carry   *)
(* their own copy of the code                                              *)
(***************************************************************************)
\* Array.prototype.filter is SelectSeq

\* Array.prototype.map is [i \in 1..Len(s) |-> ...]

\* Array.prototype.sort((a, b) => a.position - b.position): stable, so an
\* element goes behind the elements before it that do not compare greater
RECURSIVE SortInsert(_, _)
SortInsert(sorted, x) ==
    IF sorted = << >> THEN <<x>>
    ELSE IF Head(sorted).position - x.position <= 0
         THEN <<Head(sorted)>> \o SortInsert(Tail(sorted), x)
         ELSE <<x>> \o sorted
\* mutant: the array is left in the order the store returned it
SortByPosition_Unsorted(s) == s

RECURSIVE SortByPositionFrom(_, _)
SortByPositionFrom(sorted, s) ==
    IF s = << >> THEN sorted
    ELSE SortByPositionFrom(SortInsert(sorted, Head(s)), Tail(s))
SortByPosition(s) == SortByPositionFrom(<< >>, s)

\* the value a map callback returns for an offer it leaves out
Null == [null |-> TRUE]

\* mutant: the end of the window is inclusive
inWeek_InclusiveEnd(d, start, endExclusive) == d >= start /\ d <= endExclusive

\* weekly route: inWeek
inWeek(d, start, endExclusive) == d >= start /\ d < endExclusive

\* mutant: the filter forgets the position
PositionsInWeek_AnyPosition(offer, start, endExclusive) ==
    SelectSeq(offer.positions, LAMBDA p : p.date >= start /\ p.date < endExclusive)

\* weekly route: positionsInWeek of one offer
PositionsInWeek(offer, start, endExclusive) ==
    SelectSeq(offer.positions,
              LAMBDA p : inWeek(p.date, start, endExclusive) /\ p.position > 0)

\* mutant: the reduce keeps the earlier snapshot
LaterOf_Earlier(a, b) == IF a.date <= b.date THEN a ELSE b

\* weekly route: the callback of positionsInWeek.reduce
LaterOf(a, b) == IF a.date >= b.date THEN a ELSE b

\* weekly route: positionsInWeek.reduce(...) from accumulator a (reduce
\* without an initial value starts from the first element)
RECURSIVE LatestFrom(_, _)
LatestFrom(a, rest) ==
    IF rest = << >> THEN a ELSE LatestFrom(LaterOf(a, Head(rest)), Tail(rest))

\* weekly route: latest
Latest(positionsInWeek) == LatestFrom(Head(positionsInWeek), Tail(positionsInWeek))

\* weekly route: the callback of offers.map
WeeklyEntry(offer, start, endExclusive) ==
    LET positionsInWeek == PositionsInWeek(offer, start, endExclusive)
    IN  IF Len(positionsInWeek) = 0 THEN Null
        ELSE [offerId |-> offer.offerId,
              position |-> Latest(positionsInWeek).position,
              positions |-> positionsInWeek]

\* weekly route: offersWithPositions
OffersWithPositions(offers, start, endExclusive) ==
    SelectSeq([i \in 1..Len(offers) |-> WeeklyEntry(offers[i], start, endExclusive)],
              LAMBDA o : o # Null)

\* weekly route: ranked
Ranked(offers, start, endExclusive) ==
    SortByPosition(SelectSeq(OffersWithPositions(offers, start, endExclusive),
                             LAMBDA o : o.position > 0))

\* mutant: the window of the og route includes its end
OgInWeek_InclusiveEnd(d, start, endExclusive) == d >= start /\ d <= endExclusive

\* og route: inWeek
OgInWeek(d, start, endExclusive) == d >= start /\ d < endExclusive

\* og route: positionsInWeek of one offer
OgPositionsInWeek(offer, start, endExclusive) ==
    SelectSeq(offer.positions,
              LAMBDA p : OgInWeek(p.date, start, endExclusive) /\ p.position > 0)

\* og route: the callback of positionsInWeek.reduce
OgLaterOf(a, b) == IF a.date >= b.date THEN a ELSE b

\* og route: positionsInWeek.reduce(...) from accumulator a
RECURSIVE OgLatestFrom(_, _)
OgLatestFrom(a, rest) ==
    IF rest = << >> THEN a ELSE OgLatestFrom(OgLaterOf(a, Head(rest)), Tail(rest))

\* og route: latest
OgLatest(positionsInWeek) == OgLatestFrom(Head(positionsInWeek), Tail(positionsInWeek))

\* og route: the callback of offers.map
OgWeeklyEntry(offer, start, endExclusive) ==
    LET positionsInWeek == OgPositionsInWeek(offer, start, endExclusive)
    IN  IF Len(positionsInWeek) = 0 THEN Null
        ELSE [offerId |-> offer.offerId,
              position |-> OgLatest(positionsInWeek).position,
              positions |-> positionsInWeek]

\* og route: weeklyRanked
OgWeeklyRanked(offers, start, endExclusive) ==
    SortByPosition(
        SelectSeq([i \in 1..Len(offers) |-> OgWeeklyEntry(offers[i], start, endExclusive)],
                  LAMBDA o : o # Null /\ o.position > 0))

(***************************************************************************)
(* Requests                                                                *)
(***************************************************************************)
\* a query parameter or cookie that the request does not carry
Absent == [given |-> FALSE]
\* one that it carries, with its value
Given(v) == [given |-> TRUE, v |-> v]

\* ../utils/countries.js: Object.keys(regions), each with its countries
regions == << [key |-> "US", countries |-> {"US"}],
              [key |-> "EURO", countries |-> {"ES", "FR"}] >>

NoRegion == "undefined"

\* Object.keys(regions).find((r) => regions[r].countries.includes(selectedCountry))
FindRegion(selectedCountry) ==
    LET hits == { i \in 1..Len(regions) : selectedCountry \in regions[i].countries }
    IN  IF hits = {} THEN NoRegion
        ELSE regions[CHOOSE i \in hits : \A j \in hits : i <= j].key

\* country ?? cookieCountry ?? "US"
SelectedCountry(country, cookieCountry) ==
    IF country.given THEN country.v
    ELSE IF cookieCountry.given THEN cookieCountry.v ELSE "US"

Min(a, b) == IF a <= b THEN a ELSE b
Max(a, b) == IF a >= b THEN a ELSE b

\* Math.min(Number.parseInt(c.req.query("limit") || "10"), 50), for a
\* parameter that is a decimal integer when given
ParseLimit(q) == Min(IF q.given THEN q.v ELSE 10, 50)

\* Math.max(Number.parseInt(c.req.query("page") || "1"), 1)
ParsePage(q) == Max(IF q.given THEN q.v ELSE 1, 1)

\* mutant: the first page is skipped
Skip_PageTimesLimit(page, limit) == page * limit

\* skip = (page - 1) * limit
Skip(page, limit) == (page - 1) * limit

\* the slugs of the model that hold a colon, as the pieces of their text
ColonSlugs ==
    ("2025W31:top-sellers" :> (WeekId(2025, 31) \o <<":", "top-sellers">>))
    @@ ("top-sellers:US" :> <<"top-sellers", ":", "US">>)
    @@ ("top-sellers:US:1" :> <<"top-sellers", ":", "US", ":", "1">>)

\* ${slug} in a template literal: the text of the slug, as the sequence of
\* its pieces (a slug without a colon is one piece)
SlugText(slug) == IF slug \in DOMAIN ColonSlugs THEN ColonSlugs[slug] ELSE <<slug>>

\* ${n} in a template literal, for an integer n: its decimal digits, after
\* a minus sign when it is negative
RECURSIVE NaturalText(_)
NaturalText(n) ==
    IF n < 10 THEN <<DigitChar(n)>> ELSE Append(NaturalText(n \div 10), DigitChar(n % 10))
NumberText(n) == IF n < 0 THEN <<"-">> \o NaturalText(0 - n) ELSE NaturalText(n)

\* `collections:${week}:${slug}:${region}:${page}:${limit}`: the string, as
\* the sequence of its pieces (a week is already a sequence of characters)
WeeklyCacheKey(week, slug, region, page, limit) ==
    <<"collections", ":">> \o week \o <<":">> \o SlugText(slug)
        \o <<":", region, ":">> \o NumberText(page) \o <<":">> \o NumberText(limit)

\* mutant: the key of the list route has no version tag
ListCacheKey_NoVersion(slug, region, page, limit) ==
    <<"collections", ":">> \o SlugText(slug)
        \o <<":", region, ":">> \o NumberText(page) \o <<":">> \o NumberText(limit)

\* `collections:${slug}:${region}:${page}:${limit}:v0.1`
ListCacheKey(slug, region, page, limit) ==
    <<"collections", ":">> \o SlugText(slug)
        \o <<":", region, ":">> \o NumberText(page) \o <<":">> \o NumberText(limit)
        \o <<":", "v0.1">>

\* Array.prototype.slice(from, to): a negative index counts from the end
Slice(s, from, to) ==
    LET k == IF from < 0 THEN Max(Len(s) + from, 0) ELSE Min(from, Len(s))
        final == IF to < 0 THEN Max(Len(s) + to, 0) ELSE Min(to, Len(s))
    IN  SubSeq(s, k + 1, final)

\* weekly route: pageItems
PageItems(ranked, skip, limit) == Slice(ranked, skip, skip + limit)

\* Model.find({ <field>: { $in: ids } [, region] }): the documents that
\* match, in the collection's order
FindOffers(ids) == SelectSeq(offerDocs, LAMBDA x : x.id \in ids)
FindPrices(ids, region) ==
    SelectSeq(priceDocs, LAMBDA x : x.offerId \in ids /\ x.region = region)

\* Array.prototype.find: the first element that matches, or undefined
FirstOffer(offersData, id) ==
    LET hits == { i \in 1..Len(offersData) : offersData[i].id = id }
    IN  IF hits = {} THEN Null ELSE offersData[CHOOSE i \in hits : \A j \in hits : i <= j]
FirstPrice(pricesData, id) ==
    LET hits == { i \in 1..Len(pricesData) : pricesData[i].offerId = id }
    IN  IF hits = {} THEN Null ELSE pricesData[CHOOSE i \in hits : \A j \in hits : i <= j]

\* mutant: a row without a price is kept
JoinedRow_PriceOptional(o, offersData, pricesData) ==
    LET offerData == FirstOffer(offersData, o.offerId)
        priceData == FirstPrice(pricesData, o.offerId)
    IN  IF offerData = Null THEN Null
        ELSE [id |-> offerData.id, title |-> offerData.title,
              metadata |-> o, price |-> priceData]

\* weekly route: the callback of pageItems.map
JoinedRow(o, offersData, pricesData) ==
    LET offerData == FirstOffer(offersData, o.offerId)
        priceData == FirstPrice(pricesData, o.offerId)
    IN  IF offerData = Null \/ priceData = Null THEN Null
        ELSE [id |-> offerData.id, title |-> offerData.title,
              metadata |-> o, price |-> priceData]

\* weekly route: offersWithMetadata
OffersWithMetadata(pageItems, offersData, pricesData) ==
    SelectSeq([i \in 1..Len(pageItems) |-> JoinedRow(pageItems[i], offersData, pricesData)],
              LAMBDA row : row # Null)

\* weekly route: total of the result
Total(ranked) == Len(ranked)

\* mutant: total counts the rows returned
WeeklyResult_TotalOfRows(elements, page, limit, collection, ranked, window) ==
    [elements |-> elements, page |-> page, limit |-> limit,
     title |-> collection.name, total |-> Len(elements),
     updatedAt |-> [iso |-> collection.updatedAt],
     start |-> window.start, end |-> window.endExclusive]

\* weekly route: result
WeeklyResult(elements, page, limit, collection, ranked, window) ==
    [elements |-> elements, page |-> page, limit |-> limit,
     title |-> collection.name, total |-> Total(ranked),
     updatedAt |-> [iso |-> collection.updatedAt],
     start |-> window.start, end |-> window.endExclusive]

\* JSON.stringify of a Date: its ISO string
DateToJSON(t) == [iso |-> t]

\* JSON.stringify of a ranked entry (metadata of a row)
EntryToJSON(o) ==
    [offerId |-> o.offerId, position |-> o.position,
     positions |-> [j \in 1..Len(o.positions) |->
                       [date |-> DateToJSON(o.positions[j].date),
                        position |-> o.positions[j].position]]]

\* JSON.stringify(result) of the weekly route: the text, as the value it denotes
StringifyWeekly(result) ==
    [json |->
       [elements |-> [i \in 1..Len(result.elements) |->
                        [result.elements[i] EXCEPT !.metadata = EntryToJSON(@)]],
        page |-> result.page, limit |-> result.limit, title |-> result.title,
        total |-> result.total, updatedAt |-> result.updatedAt,
        start |-> DateToJSON(result.start), end |-> DateToJSON(result.end)]]

\* the seconds a data page stays cached
CacheTtl == 3600

\* mutant: the write is lost
RedisSet_NoStore(entries, key, value, ex) == entries

\* mutant: a write to a key that is held adds to its time to live
RedisSet_ExtendsTtl(entries, key, value, ex) ==
    { e \in entries : e.key # key }
        \cup { [key |-> key, value |-> value,
                ex |-> IF \E e \in entries : e.key = key
                       THEN (CHOOSE e \in entries : e.key = key).ex + ex
                       ELSE ex] }

\* client.set(key, value, "EX", ex) on the keys Redis holds
RedisSet(entries, key, value, ex) ==
    { e \in entries : e.key # key } \cup { [key |-> key, value |-> value, ex |-> ex] }

\* client.get(key): the value, or null
RedisGet(entries, key) ==
    IF \E e \in entries : e.key = key
    THEN (CHOOSE e \in entries : e.key = key).value
    ELSE Null

NoResponse == [status |-> 0]

\* a client that has sent nothing yet
IdleReq == [pc |-> "idle"]

\* the state of a handler that has just been entered
NewReq(route, in) ==
    [pc |-> "start", route |-> route, in |-> in, region |-> NoRegion,
     page |-> 0, limit |-> 0, skip |-> 0, cacheKey |-> << >>,
     cachedAtStart |-> Null, window |-> Throw, collection |-> Null,
     ranked |-> << >>, pageItems |-> << >>, total |-> 0, result |-> Null,
     rows |-> << >>, hash |-> Null, existing |-> Null, imageId |-> 0,
     calls |-> << >>, response |-> NoResponse]

\* the handler returns (or throws, which Hono answers with status 500)
Respond(r, status, body) ==
    [r EXCEPT !.pc = "done", !.response = [status |-> status, body |-> body]]

\* the handler awaits an external call
Await(r, pc, op) == [r EXCEPT !.pc = pc, !.calls = Append(@, op)]

\* the call the handler awaits rejects and nothing catches it: Hono answers
\* with status 500
Rejects(r) ==
    Respond([r EXCEPT !.calls = Append(@, [op |-> "rejected", of |-> r.calls[Len(r.calls)].op])],
            500, [message |-> "Internal Server Error"])

(***************************************************************************)
(* app.get("/:slug/:week")                                                 *)
(***************************************************************************)
\* mutant: the week is parsed after the collection is fetched
WeeklyStart_FetchesFirst(c, in) ==
    /\ reqs[c].pc = "idle"
    /\ LET region == FindRegion(SelectedCountry(in.country, in.cookie))
       IN  reqs' = [reqs EXCEPT ![c] =
               IF region = NoRegion
               THEN Respond(NewReq("weekly", in), 404, [message |-> "Country not found"])
               ELSE Respond(Await([NewReq("weekly", in) EXCEPT !.region = region],
                                  "findCollection", [op |-> "Collection.findOne"]),
                            500, [message |-> "Internal Server Error"])]
    /\ UNCHANGED <<weekVars, rankVars, gamePositions, dbVars, cache>>

\* lines 162-190: up to the first await
WeeklyStart(c, in) ==
    /\ reqs[c].pc = "idle"
    /\ LET region == FindRegion(SelectedCountry(in.country, in.cookie))
           limit == ParseLimit(in.limit)
           page == ParsePage(in.page)
           window == getIsoWeekRangeUTC(in.week)
           r == [NewReq("weekly", in) EXCEPT
                   !.region = region, !.limit = limit, !.page = page,
                   !.skip = Skip(page, limit),
                   !.cacheKey = WeeklyCacheKey(in.week, in.slug, region, page, limit),
                   !.cachedAtStart =
                       RedisGet(cache, WeeklyCacheKey(in.week, in.slug, region, page, limit)),
                   !.window = window]
       IN  reqs' = [reqs EXCEPT ![c] =
               IF region = NoRegion
               THEN Respond(NewReq("weekly", in), 404, [message |-> "Country not found"])
               ELSE IF window.threw
               THEN Respond(r, 500, [message |-> "Internal Server Error"])
               ELSE Await(r, "findCollection", [op |-> "Collection.findOne"])]
    /\ UNCHANGED <<weekVars, rankVars, gamePositions, dbVars, cache>>

\* lines 190-196: Collection.findOne answers
WeeklyFindCollection(c) ==
    /\ reqs[c].pc = "findCollection" /\ reqs[c].route = "weekly"
    /\ LET found == { d \in collectionDocs : d._id = reqs[c].in.slug }
       IN  reqs' = [reqs EXCEPT ![c] =
               IF found = {}
               THEN Respond(@, 404, [error |-> "Collection not found"])
               ELSE Await([@ EXCEPT !.collection = CHOOSE d \in found : TRUE],
                          "findPositions", [op |-> "GamePosition.find"])]
    /\ UNCHANGED <<weekVars, rankVars, gamePositions, dbVars, cache>>

\* lines 196-234: GamePosition.find answers; ranking and slice
WeeklyFindPositions(c) ==
    /\ reqs[c].pc = "findPositions" /\ reqs[c].route = "weekly"
    /\ LET r == reqs[c]
           ranked == Ranked(gamePositions, r.window.start, r.window.endExclusive)
           pageItems == PageItems(ranked, r.skip, r.limit)
       IN  reqs' = [reqs EXCEPT ![c] =
               [Await(Await(r, "lookups", [op |-> "Offer.find"]),
                      "lookups", [op |-> "PriceEngine.find"])
                  EXCEPT !.ranked = ranked, !.pageItems = pageItems]]
    /\ UNCHANGED <<weekVars, rankVars, gamePositions, dbVars, cache>>

\* lines 231-264: both lookups answer; join and result
WeeklyLookups(c) ==
    /\ reqs[c].pc = "lookups" /\ reqs[c].route = "weekly"
    /\ LET r == reqs[c]
           pageOfferIds == { r.pageItems[i].offerId : i \in 1..Len(r.pageItems) }
           offersData == FindOffers(pageOfferIds)
           pricesData == FindPrices(pageOfferIds, r.region)
           result == WeeklyResult(OffersWithMetadata(r.pageItems, offersData, pricesData),
                                  r.page, r.limit, r.collection, r.ranked, r.window)
       IN  reqs' = [reqs EXCEPT ![c] =
               Await([r EXCEPT !.result = result], "cacheSet",
                     [op |-> "client.set", key |-> r.cacheKey,
                      value |-> StringifyWeekly(result), ex |-> CacheTtl])]
    /\ UNCHANGED <<weekVars, rankVars, gamePositions, dbVars, cache>>

\* lines 231-234: Offer.find or PriceEngine.find rejects, so the Promise.all
\* rejects, and nothing catches it
WeeklyLookupFails(c, failed) ==
    /\ reqs[c].pc = "lookups" /\ reqs[c].route = "weekly"
    /\ reqs' = [reqs EXCEPT ![c] =
           Respond([@ EXCEPT !.calls = Append(@, [op |-> "rejected", of |-> failed])],
                   500, [message |-> "Internal Server Error"])]
    /\ UNCHANGED <<weekVars, rankVars, gamePositions, dbVars, cache>>

\* line 264: client.set answers
WeeklyCacheSet(c) ==
    /\ reqs[c].pc = "cacheSet" /\ reqs[c].route = "weekly"
    /\ cache' = RedisSet(cache, reqs[c].cacheKey, StringifyWeekly(reqs[c].result), CacheTtl)
    /\ reqs' = [reqs EXCEPT ![c].pc = "respond"]
    /\ UNCHANGED <<weekVars, rankVars, gamePositions, dbVars>>

\* line 264: client.set rejects
WeeklyCacheSetFails(c) ==
    /\ reqs[c].pc = "cacheSet" /\ reqs[c].route = "weekly"
    /\ reqs' = [reqs EXCEPT ![c] = Rejects(@)]
    /\ UNCHANGED <<weekVars, rankVars, gamePositions, dbVars, cache>>

\* line 265: return c.json(result, 200, ...)
WeeklyRespond(c) ==
    /\ reqs[c].pc = "respond" /\ reqs[c].route = "weekly"
    /\ reqs' = [reqs EXCEPT ![c] = Respond(@, 200, StringifyWeekly(@.result))]
    /\ UNCHANGED <<weekVars, rankVars, gamePositions, dbVars, cache>>

(***************************************************************************)
(* app.get("/:slug")                                                       *)
(***************************************************************************)
\* a property that is undefined
Undefined == [undefined |-> TRUE]

\* GamePosition.countDocuments({ collectionId, position: { $gt: 0 } })
CountListed(docs) == Len(SelectSeq(docs, LAMBDA d : d.position > 0))

\* the cursor's limit: 0 is no limit, a negative limit is its absolute value
CursorLimit(docs, limit) ==
    IF limit = 0 THEN docs
    ELSE SubSeq(docs, 1, Min(Len(docs), IF limit < 0 THEN 0 - limit ELSE limit))

\* GamePosition.find({ collectionId, position: { $gt: 0 } })
\*     .sort({ position: 1 }).limit(limit).skip(skip), for skip >= 0: the
\* server sorts, then skips, then limits (documents of equal position keep
\* the collection's order)
FindListed(docs, limit, skip) ==
    LET sorted == SortByPosition(SelectSeq(docs, LAMBDA d : d.position > 0))
    IN  CursorLimit(SubSeq(sorted, skip + 1, Len(sorted)), limit)

\* offersList.find((i) => i.toJSON().offerId === o.id)
FirstListed(offersList, id) ==
    LET hits == { i \in 1..Len(offersList) : offersList[i].offerId = id }
    IN  IF hits = {} THEN Undefined
        ELSE offersList[CHOOSE i \in hits : \A j \in hits : i <= j]

\* list route: the callback of offers.map
ListElement(o, prices, offersList, totalOffersCount) ==
    LET price == FirstPrice(prices, o.id)
        collectionOffer == FirstListed(offersList, o.id)
    IN  [id |-> o.id, title |-> o.title,
         price |-> price,
         position |-> IF collectionOffer = Undefined THEN totalOffersCount
                      ELSE collectionOffer.position,
         previousPosition |-> IF collectionOffer = Undefined THEN Undefined
                              ELSE [v |-> collectionOffer.previous],
         metadata |-> collectionOffer]

\* list route: result
ListResult(offers, prices, offersList, page, limit, collection, totalOffersCount) ==
    [elements |-> SortByPosition([i \in 1..Len(offers) |->
                      ListElement(offers[i], prices, offersList, totalOffersCount)]),
     page |-> page, limit |-> limit, title |-> collection.name,
     total |-> totalOffersCount, updatedAt |-> [iso |-> collection.updatedAt]]

\* JSON.stringify of a GamePosition document
ListedToJSON(d) ==
    [offerId |-> d.offerId, position |-> d.position, previous |-> d.previous,
     positions |-> [j \in 1..Len(d.positions) |->
                       [date |-> DateToJSON(d.positions[j].date),
                        position |-> d.positions[j].position]]]

\* JSON.stringify of an element: a property that is undefined is left out
ListElementToJSON(e) ==
    IF e.metadata = Undefined
    THEN [id |-> e.id, title |-> e.title, price |-> e.price, position |-> e.position]
    ELSE [id |-> e.id, title |-> e.title, price |-> e.price, position |-> e.position,
          previousPosition |-> e.previousPosition.v,
          metadata |-> ListedToJSON(e.metadata)]

\* JSON.stringify(result) of the list route: the text, as the value it denotes
StringifyList(result) ==
    [json |->
       [elements |-> [i \in 1..Len(result.elements) |->
                        ListElementToJSON(result.elements[i])],
        page |-> result.page, limit |-> result.limit, title |-> result.title,
        total |-> result.total, updatedAt |-> result.updatedAt]]

\* JSON.stringify(JSON.parse(cached)): the text read back is the text written
ParseAndStringify(cached) == [json |-> cached.json]

\* lines 48-73: up to the first await
ListStart(c, in) ==
    /\ reqs[c].pc = "idle"
    /\ LET region == FindRegion(SelectedCountry(in.country, in.cookie))
           limit == ParseLimit(in.limit)
           page == ParsePage(in.page)
           cacheKey == ListCacheKey(in.slug, region, page, limit)
           r == [NewReq("list", in) EXCEPT
                   !.region = region, !.limit = limit, !.page = page,
                   !.skip = Skip(page, limit), !.cacheKey = cacheKey,
                   !.cachedAtStart = RedisGet(cache, cacheKey)]
       IN  reqs' = [reqs EXCEPT ![c] =
               IF region = NoRegion
               THEN Respond(NewReq("list", in), 404, [message |-> "Country not found"])
               ELSE Await(r, "cacheGet", [op |-> "client.get", key |-> cacheKey])]
    /\ UNCHANGED <<weekVars, rankVars, gamePositions, dbVars, cache>>

\* lines 73-81: client.get answers
ListCacheGet(c) ==
    /\ reqs[c].pc = "cacheGet" /\ reqs[c].route = "list"
    /\ LET cached == RedisGet(cache, reqs[c].cacheKey)
       IN  reqs' = [reqs EXCEPT ![c] =
               IF cached # Null
               THEN Respond(@, 200, ParseAndStringify(cached))
               ELSE Await(@, "findCollection", [op |-> "Collection.findOne"])]
    /\ UNCHANGED <<weekVars, rankVars, gamePositions, dbVars, cache>>

\* line 73: client.get rejects
ListCacheGetFails(c) ==
    /\ reqs[c].pc = "cacheGet" /\ reqs[c].route = "list"
    /\ reqs' = [reqs EXCEPT ![c] = Rejects(@)]
    /\ UNCHANGED <<weekVars, rankVars, gamePositions, dbVars, cache>>

\* mutant: the answer that the collection is not found is cached
ListFindCollection_CachesNotFound(c) ==
    /\ reqs[c].pc = "findCollection" /\ reqs[c].route = "list"
    /\ { d \in collectionDocs : d._id = reqs[c].in.slug } = {}
    /\ cache' = RedisSet(cache, reqs[c].cacheKey,
                         [json |-> [message |-> "Collection not found"]], CacheTtl)
    /\ reqs' = [reqs EXCEPT ![c] =
           Respond(@, 404, [message |-> "Collection not found"])]
    /\ UNCHANGED <<weekVars, rankVars, gamePositions, dbVars>>

\* lines 81-92: Collection.findOne answers
ListFindCollection(c) ==
    /\ reqs[c].pc = "findCollection" /\ reqs[c].route = "list"
    /\ LET found == { d \in collectionDocs : d._id = reqs[c].in.slug }
       IN  reqs' = [reqs EXCEPT ![c] =
               IF found = {}
               THEN Respond(@, 404, [message |-> "Collection not found"])
               ELSE Await([@ EXCEPT !.collection = CHOOSE d \in found : TRUE],
                          "countDocuments", [op |-> "GamePosition.countDocuments"])]
    /\ UNCHANGED <<weekVars, rankVars, gamePositions, dbVars, cache>>

\* lines 92-97: GamePosition.countDocuments answers
ListCountDocuments(c) ==
    /\ reqs[c].pc = "countDocuments" /\ reqs[c].route = "list"
    /\ reqs' = [reqs EXCEPT ![c] =
           Await([@ EXCEPT !.total = CountListed(gamePositions)],
                 "findPositions", [op |-> "GamePosition.find"])]
    /\ UNCHANGED <<weekVars, rankVars, gamePositions, dbVars, cache>>

\* lines 97-115: GamePosition.find answers; both lookups are issued
ListFindPositions(c) ==
    /\ reqs[c].pc = "findPositions" /\ reqs[c].route = "list"
    /\ LET r == reqs[c]
       IN  reqs' = [reqs EXCEPT ![c] =
               [Await(Await(r, "lookups", [op |-> "Offer.find"]),
                      "lookups", [op |-> "PriceEngine.find"])
                  EXCEPT !.pageItems = FindListed(gamePositions, r.limit, r.skip)]]
    /\ UNCHANGED <<weekVars, rankVars, gamePositions, dbVars, cache>>

\* lines 107-151: both lookups settle (fulfilled); result
ListLookups(c) ==
    /\ reqs[c].pc = "lookups" /\ reqs[c].route = "list"
    /\ LET r == reqs[c]
           offersIds == { r.pageItems[i].offerId : i \in 1..Len(r.pageItems) }
           offers == FindOffers(offersIds)
           prices == FindPrices(offersIds, r.region)
           result == ListResult(offers, prices, r.pageItems, r.page, r.limit,
                                r.collection, r.total)
       IN  reqs' = [reqs EXCEPT ![c] =
               Await([r EXCEPT !.result = result], "cacheSet",
                     [op |-> "client.set", key |-> r.cacheKey,
                      value |-> StringifyList(result), ex |-> CacheTtl])]
    /\ UNCHANGED <<weekVars, rankVars, gamePositions, dbVars, cache>>

\* line 151: client.set answers
ListCacheSet(c) ==
    /\ reqs[c].pc = "cacheSet" /\ reqs[c].route = "list"
    /\ cache' = RedisSet(cache, reqs[c].cacheKey, StringifyList(reqs[c].result), CacheTtl)
    /\ reqs' = [reqs EXCEPT ![c].pc = "respond"]
    /\ UNCHANGED <<weekVars, rankVars, gamePositions, dbVars>>

\* line 151: client.set rejects
ListCacheSetFails(c) ==
    /\ reqs[c].pc = "cacheSet" /\ reqs[c].route = "list"
    /\ reqs' = [reqs EXCEPT ![c] = Rejects(@)]
    /\ UNCHANGED <<weekVars, rankVars, gamePositions, dbVars, cache>>

\* lines 153-155: return c.json(result, 200, ...)
ListRespond(c) ==
    /\ reqs[c].pc = "respond" /\ reqs[c].route = "list"
    /\ reqs' = [reqs EXCEPT ![c] = Respond(@, 200, StringifyList(@.result))]
    /\ UNCHANGED <<weekVars, rankVars, gamePositions, dbVars, cache>>

(***************************************************************************)
(* app.get("/:slug/:week/og")                                              *)
(***************************************************************************)
\* a query parameter that is given and not the empty string
Truthy(q) == q.given /\ q.v # ""

\* lines 303-305
OgLimit == 10
OgPage == 1
OgSkip == 0

\* `collections:${week}:${slug}:${region}:${page}:${limit}:og`
OgCacheKey(week, slug, region, page, limit) ==
    <<"collections", ":">> \o week \o <<":">> \o SlugText(slug)
        \o <<":", region, ":">> \o NumberText(page) \o <<":">> \o NumberText(limit)
        \o <<":", "og">>

\* og route: topItems
OgTopItems(weeklyRanked) == Slice(weeklyRanked, OgSkip, OgSkip + OgLimit)

\* og route: the callback of topItems.map
OgJoinedRow(o, offersData, pricesData) ==
    LET offerData == FirstOffer(offersData, o.offerId)
        priceData == FirstPrice(pricesData, o.offerId)
    IN  IF offerData = Null \/ priceData = Null THEN Null
        ELSE [id |-> offerData.id, title |-> offerData.title,
              metadata |-> o, price |-> priceData]

\* og route: offersWithMetadata
OgOffersWithMetadata(topItems, offersData, pricesData) ==
    SelectSeq([i \in 1..Len(topItems) |-> OgJoinedRow(topItems[i], offersData, pricesData)],
              LAMBDA row : row # Null)

\* one element of items in the text that is hashed
OgHashItem(g) ==
    [id |-> g.id, title |-> g.title, pos |-> g.metadata.position,
     dp |-> g.price.price.discountPrice, op |-> g.price.price.originalPrice,
     d |-> g.price.price.discount]

\* mutant: the hash leaves the prices out
OgHash_NoPrices(week, region, offersWithMetadata) ==
    [sha256 |-> [week |-> week, region |-> region,
                 items |-> [i \in 1..Len(offersWithMetadata) |->
                              [id |-> offersWithMetadata[i].id,
                               title |-> offersWithMetadata[i].title,
                               pos |-> offersWithMetadata[i].metadata.position]]]]

\* hex: the SHA-256 digest of JSON.stringify({ week, region, items }), as
\* the text it is the digest of (two texts do not share a digest)
OgHash(week, region, offersWithMetadata) ==
    [sha256 |-> [week |-> week, region |-> region,
                 items |-> [i \in 1..Len(offersWithMetadata) |->
                              OgHashItem(offersWithMetadata[i])]]]

\* mutant: of the documents that match, the one inserted last
RegistryFindOne_Last(rows, hex) ==
    LET hits == { k \in 1..Len(rows) : rows[k].hash = hex }
    IN  IF hits = {} THEN Null
        ELSE rows[CHOOSE k \in hits : \A j \in hits : j <= k]

\* db.db.collection("tops-og").findOne({ hash: hex }): the first document
\* that matches, in natural order (documents are only ever inserted, so
\* the order of insertion), or null
RegistryFindOne(rows, hex) ==
    LET hits == { k \in 1..Len(rows) : rows[k].hash = hex }
    IN  IF hits = {} THEN Null
        ELSE rows[CHOOSE k \in hits : \A j \in hits : k <= j]

\* db.db.collection("tops-og").updateOne({ imageId }, { $set: { imageId,
\* hash: hex } }, { upsert: true })
RegistryUpdateOne(rows, imageId, hex) ==
    IF \E k \in 1..Len(rows) : rows[k].imageId = imageId
    THEN LET first == CHOOSE k \in 1..Len(rows) :
                         /\ rows[k].imageId = imageId
                         /\ \A j \in 1..Len(rows) : rows[j].imageId = imageId => k <= j
         IN  [rows EXCEPT ![first] = [imageId |-> imageId, hash |-> hex]]
    ELSE Append(rows, [imageId |-> imageId, hash |-> hex])

\* the url of an image id
OgUrl(imageId) ==
    <<"https://cdn.egdata.app/cdn-cgi/imagedelivery/RlN2EBAhhGSZh5aeUaPz3Q/",
      ToString(imageId), "/og">>

\* the body of an answer that refers to an image
OgPayload(imageId) == [id |-> imageId, url |-> OgUrl(imageId)]

\* mutant: an entry of the registry is never reused
ReusesExisting_Never(existingImage, direct, render) == FALSE

\* line 399: existingImage && (!direct && !render)
ReusesExisting(existingImage, direct, render) ==
    existingImage # Null /\ (~Truthy(direct) /\ ~Truthy(render))

\* line 468: game._id of a row that is not there throws
RowsThrow(offersWithMetadata) ==
    \E i \in 0..(OgLimit - 1) : i + 1 > Len(offersWithMetadata)

\* Math.round(x / y * 100)
RoundPercent(x, y) == (200 * x + y) \div (2 * y)

\* lines 478-502: what a row of the table shows
RowCells(game, i) ==
    LET pr == game.price.price
    IN  [rank |-> i + 1,
         title |-> game.title,
         discount |-> IF pr.originalPrice # 0 /\ pr.discountPrice # 0
                         /\ pr.originalPrice # pr.discountPrice
                      THEN RoundPercent(pr.originalPrice - pr.discountPrice, pr.originalPrice)
                      ELSE 0 - 1,
         original |-> IF pr.originalPrice # 0 /\ pr.originalPrice # pr.discountPrice
                      THEN [currency |-> pr.currencyCode, cents |-> pr.originalPrice]
                      ELSE [currency |-> "", cents |-> 0 - 1],
         price |-> [currency |-> IF pr.discountPrice = 0 THEN "" ELSE pr.currencyCode,
                    cents |-> pr.discountPrice]]

\* lines 507-617: the bytes of the image, as what the image shows
RenderPng(week, region, offersWithMetadata, window) ==
    [png |-> [week |-> week, region |-> region,
              rows |-> [i \in 1..OgLimit |-> RowCells(offersWithMetadata[i], i - 1)],
              start |-> window.start, end |-> window.endExclusive]]

\* lines 399-507: after the registry was (or was not) asked
OgAfterRegistry(r, existingImage) ==
    IF ReusesExisting(existingImage, r.in.direct, r.in.svg)
    THEN Respond([r EXCEPT !.existing = existingImage], 200,
                 OgPayload(existingImage.imageId))
    ELSE IF RowsThrow(r.rows)
    THEN Respond([r EXCEPT !.existing = existingImage], 500,
                 [message |-> "Internal Server Error"])
    ELSE Await([r EXCEPT !.existing = existingImage], "render", [op |-> "satori"])

\* lines 287-317: up to the first await
OgStart(c, in) ==
    /\ reqs[c].pc = "idle"
    /\ LET region == FindRegion(SelectedCountry(in.country, in.cookie))
           window == getIsoWeekRangeUTC(in.week)
           r == [NewReq("og", in) EXCEPT
                   !.region = region, !.limit = OgLimit, !.page = OgPage,
                   !.skip = OgSkip,
                   !.cacheKey = OgCacheKey(in.week, in.slug, region, OgPage, OgLimit),
                   !.window = window]
       IN  reqs' = [reqs EXCEPT ![c] =
               IF region = NoRegion
               THEN Respond(NewReq("og", in), 404, [message |-> "Country not found"])
               ELSE IF window.threw
               THEN Respond(r, 500, [message |-> "Internal Server Error"])
               ELSE Await(r, "findCollection", [op |-> "Collection.findOne"])]
    /\ UNCHANGED <<weekVars, rankVars, gamePositions, dbVars, cache>>

\* lines 317-322: Collection.findOne answers
OgFindCollection(c) ==
    /\ reqs[c].pc = "findCollection" /\ reqs[c].route = "og"
    /\ LET found == { d \in collectionDocs : d._id = reqs[c].in.slug }
       IN  reqs' = [reqs EXCEPT ![c] =
               IF found = {}
               THEN Respond(@, 404, [error |-> "Collection not found"])
               ELSE Await([@ EXCEPT !.collection = CHOOSE d \in found : TRUE],
                          "findPositions", [op |-> "GamePosition.find"])]
    /\ UNCHANGED <<weekVars, rankVars, gamePositions, dbVars, cache>>

\* lines 322-356: GamePosition.find answers; ranking and top items
OgFindPositions(c) ==
    /\ reqs[c].pc = "findPositions" /\ reqs[c].route = "og"
    /\ LET r == reqs[c]
           weeklyRanked == OgWeeklyRanked(gamePositions, r.window.start,
                                          r.window.endExclusive)
       IN  reqs' = [reqs EXCEPT ![c] =
               [Await(Await(r, "lookups", [op |-> "Offer.find"]),
                      "lookups", [op |-> "PriceEngine.find"])
                  EXCEPT !.ranked = weeklyRanked, !.pageItems = OgTopItems(weeklyRanked)]]
    /\ UNCHANGED <<weekVars, rankVars, gamePositions, dbVars, cache>>

\* lines 353-397 (and on to 507 when svg is given): both lookups answer;
\* join and hash
OgLookups(c) ==
    /\ reqs[c].pc = "lookups" /\ reqs[c].route = "og"
    /\ LET r == reqs[c]
           pageOfferIds == { r.pageItems[i].offerId : i \in 1..Len(r.pageItems) }
           offersWithMetadata ==
               OgOffersWithMetadata(r.pageItems, FindOffers(pageOfferIds),
                                    FindPrices(pageOfferIds, r.region))
           hashed == [r EXCEPT !.rows = offersWithMetadata,
                               !.hash = OgHash(r.in.week, r.region, offersWithMetadata)]
       IN  reqs' = [reqs EXCEPT ![c] =
               IF ~Truthy(r.in.svg)
               THEN Await(hashed, "registryFind",
                          [op |-> "tops-og.findOne", hash |-> hashed.hash])
               ELSE OgAfterRegistry(hashed, Null)]
    /\ UNCHANGED <<weekVars, rankVars, gamePositions, dbVars, cache>>

\* lines 396-507: tops-og.findOne answers
OgRegistryFind(c) ==
    /\ reqs[c].pc = "registryFind" /\ reqs[c].route = "og"
    /\ reqs' = [reqs EXCEPT ![c] =
           OgAfterRegistry(@, RegistryFindOne(registry, @.hash))]
    /\ UNCHANGED <<weekVars, rankVars, gamePositions, dbVars, cache>>

\* lines 507-637: satori answers; the image is rasterised
OgRender(c) ==
    /\ reqs[c].pc = "render" /\ reqs[c].route = "og"
    /\ LET r == reqs[c]
       IN  reqs' = [reqs EXCEPT ![c] =
               IF Truthy(r.in.direct)
               THEN Respond(r, 200, RenderPng(r.in.week, r.region, r.rows, r.window))
               ELSE Await(r, "upload", [op |-> "fetch"])]
    /\ UNCHANGED <<weekVars, rankVars, gamePositions, dbVars, cache>>

\* lines 507-617: satori rejects, or the rasteriser throws
OgRenderFails(c) ==
    /\ reqs[c].pc = "render" /\ reqs[c].route = "og"
    /\ reqs' = [reqs EXCEPT ![c] = Rejects(@)]
    /\ UNCHANGED <<weekVars, rankVars, gamePositions, dbVars, cache>>

\* lines 637-650: the image store answers with the id of a new image
OgUpload(c) ==
    /\ reqs[c].pc = "upload" /\ reqs[c].route = "og"
    /\ images' = images + 1
    /\ reqs' = [reqs EXCEPT ![c] =
           Await([@ EXCEPT !.imageId = images + 1], "registryWrite",
                 [op |-> "tops-og.updateOne", imageId |-> images + 1, hash |-> @.hash])]
    /\ UNCHANGED <<weekVars, rankVars, gamePositions, collectionDocs, offerDocs,
                   priceDocs, registry, pushSubscriptions, cache>>

\* mutant: a row is written although the upload failed
OgUploadNotOk_WritesRow(c) ==
    /\ reqs[c].pc = "upload" /\ reqs[c].route = "og"
    /\ registry' = Append(registry, [imageId |-> 0, hash |-> reqs[c].hash])
    /\ reqs' = [reqs EXCEPT ![c] = Respond(@, 400, [error |-> "Failed to upload image"])]
    /\ UNCHANGED <<weekVars, rankVars, gamePositions, collectionDocs, offerDocs,
                   priceDocs, images, pushSubscriptions, cache>>

\* mutant: a failed upload is tried again from the rendering
OgUploadNotOk_Retries(c) ==
    /\ reqs[c].pc = "upload" /\ reqs[c].route = "og"
    /\ reqs' = [reqs EXCEPT ![c] = Await(@, "render", [op |-> "satori"])]
    /\ UNCHANGED <<weekVars, rankVars, gamePositions, dbVars, cache>>

\* lines 643-646: the image store answers that it failed
OgUploadNotOk(c) ==
    /\ reqs[c].pc = "upload" /\ reqs[c].route = "og"
    /\ reqs' = [reqs EXCEPT ![c] = Respond(@, 400, [error |-> "Failed to upload image"])]
    /\ UNCHANGED <<weekVars, rankVars, gamePositions, dbVars, cache>>

\* line 637: fetch rejects
OgUploadFails(c) ==
    /\ reqs[c].pc = "upload" /\ reqs[c].route = "og"
    /\ reqs' = [reqs EXCEPT ![c] = Rejects(@)]
    /\ UNCHANGED <<weekVars, rankVars, gamePositions, dbVars, cache>>

\* lines 650-663: tops-og.updateOne answers
OgRegistryWrite(c) ==
    /\ reqs[c].pc = "registryWrite" /\ reqs[c].route = "og"
    /\ registry' = RegistryUpdateOne(registry, reqs[c].imageId, reqs[c].hash)
    /\ reqs' = [reqs EXCEPT ![c] = Respond(@, 200, OgPayload(@.imageId))]
    /\ UNCHANGED <<weekVars, rankVars, gamePositions, collectionDocs, offerDocs,
                   priceDocs, images, pushSubscriptions, cache>>

(***************************************************************************)
(* push.ts: app.post('/subscribe')                                         *)
(***************************************************************************)
\* validateSubscription(body) throws
InvalidSubscription(body) ==
    \/ body.endpoint = ""
    \/ ~body.keys.given
    \/ body.keys.v.p256dh = ""
    \/ body.keys.v.auth = ""

\* validateSubscription(body), for a body it accepts
validateSubscription(body) ==
    [endpoint |-> body.endpoint,
     keys |-> [p256dh |-> body.keys.v.p256dh, auth |-> body.keys.v.auth]]

\* the state of the handler of POST /subscribe that has just been entered
NewSubscribeReq(in) ==
    [pc |-> "start", route |-> "subscribe", in |-> in, userId |-> "",
     endpoint |-> "", subscription |-> Null, calls |-> << >>,
     response |-> NoResponse]

\* randomUUID() of request c: a value no other call returns
RandomUUID(c) == [uuid |-> c]

\* PushSubscription.findOne({ userId, endpoint }): the first document that
\* matches, or null
FindSubscription(docs, userId, endpoint) ==
    LET hits == { k \in 1..Len(docs) :
                    docs[k].userId = userId /\ docs[k].endpoint = endpoint }
    IN  IF hits = {} THEN Null
        ELSE docs[CHOOSE k \in hits : \A j \in hits : k <= j]

\* new PushSubscription({ id: randomUUID(), userId, endpoint, keys, topics: [] })
NewSubscription(c, userId, endpoint, keys) ==
    [id |-> RandomUUID(c), userId |-> userId, endpoint |-> endpoint,
     keys |-> keys, topics |-> << >>]

\* subscription.save(): the document is inserted (the only unique index
\* is the one on id, and no two documents get one id)
SaveSubscription(docs, doc) == Append(docs, doc)

\* lines 130-146 and 176-190: userApiKeyMiddleware, then the handler up to
\* PushSubscription.findOne
SubscribeStart(c, in) ==
    /\ reqs[c].pc = "idle"
    /\ LET r == NewSubscribeReq(in)
       IN  reqs' = [reqs EXCEPT ![c] =
               IF ~Truthy(in.apiKey)
               THEN Respond(r, 401, [error |-> "API key required"])
               ELSE IF InvalidSubscription(in.body)
               THEN Respond(r, 500, [error |-> "Failed to subscribe"])
               ELSE Await([r EXCEPT !.userId = in.apiKey.v,
                                    !.endpoint = validateSubscription(in.body).endpoint],
                          "findSubscription", [op |-> "PushSubscription.findOne"])]
    /\ UNCHANGED <<weekVars, rankVars, gamePositions, dbVars, cache>>

\* lines 190-211: PushSubscription.findOne answers
SubscribeFindOne(c) ==
    /\ reqs[c].pc = "findSubscription" /\ reqs[c].route = "subscribe"
    /\ LET r == reqs[c]
           existingSubscription == FindSubscription(pushSubscriptions, r.userId, r.endpoint)
       IN  reqs' = [reqs EXCEPT ![c] =
               IF existingSubscription # Null
               THEN Respond(r, 200, [id |-> existingSubscription.id,
                                     message |-> "Subscription already exists"])
               ELSE Await([r EXCEPT !.subscription =
                              NewSubscription(c, r.userId, r.endpoint,
                                              validateSubscription(r.in.body).keys)],
                          "save", [op |-> "subscription.save"])]
    /\ UNCHANGED <<weekVars, rankVars, gamePositions, dbVars, cache>>

\* lines 211-216: subscription.save() answers
SubscribeSave(c) ==
    /\ reqs[c].pc = "save" /\ reqs[c].route = "subscribe"
    /\ pushSubscriptions' = SaveSubscription(pushSubscriptions, reqs[c].subscription)
    /\ reqs' = [reqs EXCEPT ![c] =
           Respond(@, 200, [id |-> @.subscription.id,
                            message |-> "Successfully subscribed to push notifications"])]
    /\ UNCHANGED <<weekVars, rankVars, gamePositions, collectionDocs, offerDocs,
                   priceDocs, registry, images, cache>>

\* lines 211 and 217-220: subscription.save() rejects and the handler
\* catches it
SubscribeSaveFails(c) ==
    /\ reqs[c].pc = "save" /\ reqs[c].route = "subscribe"
    /\ reqs' = [reqs EXCEPT ![c] =
           Respond([@ EXCEPT !.calls = Append(@, [op |-> "rejected", of |-> "subscription.save"])],
                   500, [error |-> "Failed to subscribe"])]
    /\ UNCHANGED <<weekVars, rankVars, gamePositions, dbVars, cache>>

(***************************************************************************)
(* SpecWeek: getIsoWeekRangeUTC applied to every input                     *)
(***************************************************************************)
NoCall == [pending |-> TRUE]

\* the request handlers and their stores play no part
NoRequests ==
    /\ collectionDocs = {}
    /\ offerDocs = << >>
    /\ priceDocs = << >>
    /\ registry = << >>
    /\ images = 0
    /\ pushSubscriptions = << >>
    /\ cache = {}
    /\ reqs = << >>

InitWeek ==
    /\ wkArg \in WeekInputs
    /\ wkRet = NoCall
    /\ gamePositions = << >>
    /\ rkWeek = << >>
    /\ rkWeekly = NoCall
    /\ rkOg = NoCall
    /\ NoRequests

CallGetIsoWeekRange ==
    /\ wkRet = NoCall
    /\ wkRet' = getIsoWeekRangeUTC(wkArg)
    /\ UNCHANGED <<wkArg, gamePositions, rankVars, dbVars, cache, reqs>>

NextWeek == CallGetIsoWeekRange

SpecWeek == InitWeek /\ [][NextWeek]_vars

(***************************************************************************)
(* SpecRank: the ranking code of both routes applied to every store        *)
(***************************************************************************)
\* the reference week 2025W31 is [day 20297, day 20304)
RefStart == getIsoWeekRangeUTC(WeekId(2025, 31)).start
RefEnd == getIsoWeekRangeUTC(WeekId(2025, 31)).endExclusive

\* the instants snapshots are recorded at: the first and the last instant
\* of 2025W31, and the first instant of 2025W32
SnapDates == {RefStart, RefEnd - 1, RefEnd}

\* the weeks requested
RankWeeks == {WeekId(2025, 31), WeekId(2025, 32)}

Snapshots == [date : SnapDates, position : SnapPositions]

\* the number of snapshots a store holds
RECURSIVE SnapshotCount(_)
SnapshotCount(docs) ==
    IF docs = << >> THEN 0 ELSE Len(Head(docs).positions) + SnapshotCount(Tail(docs))

\* the collection before any snapshot is recorded: one document per offer
EmptyStore == [i \in 1..MaxOffers |-> [offerId |-> OfferIds[i], positions |-> << >>]]

InitRank ==
    /\ gamePositions = EmptyStore
    /\ rkWeek \in RankWeeks
    /\ rkWeekly = NoCall
    /\ rkOg = NoCall
    /\ wkArg = << >>
    /\ wkRet = NoCall
    /\ NoRequests

\* the ingestion process appends a snapshot to an offer's position history
Ingest(i, snap) ==
    /\ SnapshotCount(gamePositions) < MaxSnapshots
    /\ gamePositions' = [gamePositions EXCEPT ![i].positions = Append(@, snap)]

\* the store the ranking reads is built first
IngestBeforeRanking ==
    /\ rkWeekly = NoCall
    /\ rkOg = NoCall
    /\ \E i \in 1..MaxOffers, snap \in Snapshots : Ingest(i, snap)
    /\ UNCHANGED <<weekVars, rankVars, dbVars, cache, reqs>>

\* weekly route, lines 188 and 198-226
RankWeekly ==
    /\ rkWeekly = NoCall
    /\ LET w == getIsoWeekRangeUTC(rkWeek)
       IN  rkWeekly' = [ranked |-> Ranked(gamePositions, w.start, w.endExclusive)]
    /\ UNCHANGED <<weekVars, gamePositions, rkWeek, rkOg, dbVars, cache, reqs>>

\* og route, lines 315 and 324-348
RankOg ==
    /\ rkOg = NoCall
    /\ LET w == getIsoWeekRangeUTC(rkWeek)
       IN  rkOg' = [ranked |-> OgWeeklyRanked(gamePositions, w.start, w.endExclusive)]
    /\ UNCHANGED <<weekVars, gamePositions, rkWeek, rkWeekly, dbVars, cache, reqs>>

NextRank == IngestBeforeRanking \/ RankWeekly \/ RankOg

SpecRank == InitRank /\ [][NextRank]_vars

(***************************************************************************)
(* SpecPage: one weekly request against every store and catalogue          *)
(***************************************************************************)
TopSellers == [_id |-> "top-sellers", name |-> "Top Sellers", updatedAt |-> RefStart]

\* the Offer document, the PriceEngine document of offer id
OfferDoc(id) == [id |-> id, title |-> <<"Game", id>>]
PriceDoc(id, region) ==
    [offerId |-> id, region |-> region,
     price |-> [discountPrice |-> 10 * id, originalPrice |-> 20 * id,
                discount |-> 10 * id, currencyCode |-> "USD"]]

\* the catalogue and the price list without the documents of the offers in
\* missing
OfferDocsWithout(missing) ==
    SelectSeq([i \in 1..MaxOffers |-> OfferDoc(OfferIds[i])], LAMBDA x : x.id \notin missing)
PriceDocsWithout(missing) ==
    SelectSeq([i \in 1..MaxOffers |-> PriceDoc(OfferIds[i], "US")],
              LAMBDA x : x.offerId \notin missing)

\* what a client may ask of the weekly route
WeeklyInput(slug, week, country, page, limit) ==
    [slug |-> slug, week |-> week, country |-> country, cookie |-> Absent,
     page |-> page, limit |-> limit]

MaxLimit == 2
MaxPage == 2

PageInputs ==
    { WeeklyInput("top-sellers", week, Absent, page, limit) :
        week \in RankWeeks,
        page \in {Absent} \cup { Given(n) : n \in 2..MaxPage },
        limit \in {Absent} \cup { Given(n) : n \in 1..MaxLimit } }
    \cup { WeeklyInput("top-sellers", WeekId(2025, 31), Given("ZZ"), Absent, Absent),
           WeeklyInput("top-sellers", <<"2", "0", "2", "5", "W", "3">>, Absent, Absent, Absent),
           WeeklyInput("no-such-collection", WeekId(2025, 31), Absent, Absent, Absent) }

InitPage ==
    /\ gamePositions = EmptyStore
    /\ collectionDocs = {TopSellers}
    /\ offerDocs \in { OfferDocsWithout({}), OfferDocsWithout({OfferIds[1]}) }
    /\ priceDocs \in { PriceDocsWithout({}), PriceDocsWithout({OfferIds[2]}) }
    /\ registry = << >>
    /\ images = 0
    /\ pushSubscriptions = << >>
    /\ cache = {}
    /\ reqs = <<IdleReq>>
    /\ wkArg = << >>
    /\ wkRet = NoCall
    /\ rkWeek = << >>
    /\ rkWeekly = NoCall
    /\ rkOg = NoCall

\* before the request, the ingestion process records the position of an
\* offer in 2025W31
IngestFirst ==
    /\ \A c \in DOMAIN reqs : reqs[c].pc = "idle"
    /\ \E i \in 1..MaxOffers, position \in 0..MaxPosition :
          /\ gamePositions[i].positions = << >>
          /\ Ingest(i, [date |-> RefStart, position |-> position])
    /\ UNCHANGED <<weekVars, rankVars, dbVars, cache, reqs>>

NextPage ==
    \/ IngestFirst
    \/ \E c \in DOMAIN reqs, in \in PageInputs : WeeklyStart(c, in)
    \/ \E c \in DOMAIN reqs : WeeklyFindCollection(c)
    \/ \E c \in DOMAIN reqs : WeeklyFindPositions(c)
    \/ \E c \in DOMAIN reqs : WeeklyLookups(c)
    \/ \E c \in DOMAIN reqs : WeeklyCacheSet(c)
    \/ \E c \in DOMAIN reqs : WeeklyRespond(c)

SpecPage == InitPage /\ [][NextPage]_vars

(***************************************************************************)
(* Spec: requests of both data routes, one after the other, against a      *)
(* store that does not change, with the cache between them                 *)
(***************************************************************************)
MaxRequests == 2

\* a GamePosition document: its current and previous position and one
\* snapshot in 2025W31
ListedDoc(i, position) ==
    [offerId |-> OfferIds[i], position |-> position, previous |-> i,
     positions |-> << [date |-> RefStart, position |-> i] >>]

\* the offers listed in the order of their ids, and in the reverse order
\* with the last one unlisted
SampleStores ==
    { [i \in 1..MaxOffers |-> ListedDoc(i, i)],
      [i \in 1..MaxOffers |-> ListedDoc(i, MaxOffers - i)] }

\* what a client may ask of the list route
ListInput(slug, country, page, limit) ==
    [slug |-> slug, country |-> country, cookie |-> Absent,
     page |-> page, limit |-> limit]

PageParams == {Absent} \cup { Given(n) : n \in 2..MaxPage }
LimitParams == {Absent, Given(MaxLimit)}

WeeklyInputs ==
    { WeeklyInput("top-sellers", WeekId(2025, 31), Absent, page, limit) :
        page \in PageParams, limit \in LimitParams }
    \cup { WeeklyInput("top-sellers", WeekId(2025, 32), Absent, Absent, Absent),
           WeeklyInput("top-sellers", WeekId(2025, 31), Given("ZZ"), Absent, Absent),
           WeeklyInput("top-sellers", <<"2", "0", "2", "5", "W", "3">>, Absent, Absent, Absent),
           WeeklyInput("no-such-collection", WeekId(2025, 31), Absent, Absent, Absent) }

ListInputs ==
    { ListInput("top-sellers", Absent, page, limit) :
        page \in PageParams, limit \in LimitParams }
    \cup { ListInput("top-sellers", Given("ZZ"), Absent, Absent),
           ListInput("top-sellers", Given("ES"), Absent, Absent),
           ListInput("no-such-collection", Absent, Absent, Absent) }

Init ==
    /\ gamePositions \in SampleStores
    /\ collectionDocs = {TopSellers}
    /\ offerDocs = OfferDocsWithout({})
    /\ priceDocs = PriceDocsWithout({OfferIds[2]})
    /\ registry = << >>
    /\ images = 0
    /\ pushSubscriptions = << >>
    /\ cache = {}
    /\ reqs = <<IdleReq>>
    /\ wkArg = << >>
    /\ wkRet = NoCall
    /\ rkWeek = << >>
    /\ rkWeekly = NoCall
    /\ rkOg = NoCall

\* the next request arrives when the one before it has been answered
NextRequest ==
    /\ Len(reqs) < MaxRequests
    /\ \A c \in DOMAIN reqs : reqs[c].pc = "done"
    /\ reqs' = Append(reqs, IdleReq)
    /\ UNCHANGED <<weekVars, rankVars, gamePositions, dbVars, cache>>

\* the time to live of an entry runs out
Expire ==
    /\ \E e \in cache : cache' = cache \ {e}
    /\ UNCHANGED <<weekVars, rankVars, gamePositions, dbVars, reqs>>

Next ==
    \/ NextRequest
    \/ Expire
    \/ \E c \in DOMAIN reqs, in \in WeeklyInputs : WeeklyStart(c, in)
    \/ \E c \in DOMAIN reqs : WeeklyFindCollection(c)
    \/ \E c \in DOMAIN reqs : WeeklyFindPositions(c)
    \/ \E c \in DOMAIN reqs : WeeklyLookups(c)
    \/ \E c \in DOMAIN reqs : WeeklyCacheSet(c)
    \/ \E c \in DOMAIN reqs : WeeklyRespond(c)
    \/ \E c \in DOMAIN reqs, in \in ListInputs : ListStart(c, in)
    \/ \E c \in DOMAIN reqs : ListCacheGet(c)
    \/ \E c \in DOMAIN reqs : ListFindCollection(c)
    \/ \E c \in DOMAIN reqs : ListCountDocuments(c)
    \/ \E c \in DOMAIN reqs : ListFindPositions(c)
    \/ \E c \in DOMAIN reqs : ListLookups(c)
    \/ \E c \in DOMAIN reqs : ListCacheSet(c)
    \/ \E c \in DOMAIN reqs : ListRespond(c)
    \/ \E c \in DOMAIN reqs : WeeklyCacheSetFails(c)
    \/ \E c \in DOMAIN reqs : ListCacheGetFails(c)
    \/ \E c \in DOMAIN reqs : ListCacheSetFails(c)

Spec == Init /\ [][Next]_vars

(***************************************************************************)
(* SpecConc: two requests of the weekly or the list route at the same time *)
(* against a store that does not change                                    *)
(***************************************************************************)
ConcWeeklyInputs ==
    { WeeklyInput("top-sellers", WeekId(2025, 31), Absent, page, Absent) :
        page \in {Absent, Given(2)} }

ConcListInputs ==
    { ListInput("top-sellers", Absent, Absent, limit) : limit \in {Absent, Given(1)} }

\* two clients, neither of which has sent its request yet
InitConc ==
    /\ gamePositions \in SampleStores
    /\ collectionDocs = {TopSellers}
    /\ offerDocs = OfferDocsWithout({})
    /\ priceDocs = PriceDocsWithout({OfferIds[2]})
    /\ registry = << >>
    /\ images = 0
    /\ pushSubscriptions = << >>
    /\ cache = {}
    /\ reqs = <<IdleReq, IdleReq>>
    /\ wkArg = << >>
    /\ wkRet = NoCall
    /\ rkWeek = << >>
    /\ rkWeekly = NoCall
    /\ rkOg = NoCall

NextConc ==
    \/ \E c \in DOMAIN reqs, in \in ConcWeeklyInputs : WeeklyStart(c, in)
    \/ \E c \in DOMAIN reqs : WeeklyFindCollection(c)
    \/ \E c \in DOMAIN reqs : WeeklyFindPositions(c)
    \/ \E c \in DOMAIN reqs : WeeklyLookups(c)
    \/ \E c \in DOMAIN reqs : WeeklyCacheSet(c)
    \/ \E c \in DOMAIN reqs : WeeklyRespond(c)
    \/ \E c \in DOMAIN reqs, in \in ConcListInputs : ListStart(c, in)
    \/ \E c \in DOMAIN reqs : ListCacheGet(c)
    \/ \E c \in DOMAIN reqs : ListFindCollection(c)
    \/ \E c \in DOMAIN reqs : ListCountDocuments(c)
    \/ \E c \in DOMAIN reqs : ListFindPositions(c)
    \/ \E c \in DOMAIN reqs : ListLookups(c)
    \/ \E c \in DOMAIN reqs : ListCacheSet(c)
    \/ \E c \in DOMAIN reqs : ListRespond(c)

SpecConc == InitConc /\ [][NextConc]_vars

(***************************************************************************)
(* SpecKey: two requests of the weekly or the list route for collections   *)
(* whose slugs hold colons, weeks and numbers                              *)
(***************************************************************************)
KeySlugs == {"top-sellers"} \cup DOMAIN ColonSlugs

KeyPages == {Absent, Given(11)}
KeyLimits == {Absent, Given(1)}

KeyWeeklyInputs ==
    { WeeklyInput(slug, WeekId(2025, 31), Absent, page, limit) :
        slug \in KeySlugs, page \in KeyPages, limit \in KeyLimits }
    \cup { WeeklyInput("top-sellers", WeekId(2025, 32), Absent, Absent, Absent),
           WeeklyInput("top-sellers", WeekId(2025, 31), Given("ES"), Absent, Absent) }

KeyListInputs ==
    { ListInput(slug, Absent, page, limit) :
        slug \in KeySlugs, page \in KeyPages, limit \in KeyLimits }
    \cup { ListInput("top-sellers", Given("ES"), Absent, Absent) }

\* every slug names a collection of its own
KeyCollections == { [_id |-> slug, name |-> slug, updatedAt |-> RefStart] : slug \in KeySlugs }

InitKey ==
    /\ gamePositions = [i \in 1..MaxOffers |-> ListedDoc(i, i)]
    /\ collectionDocs = KeyCollections
    /\ offerDocs = OfferDocsWithout({})
    /\ priceDocs = PriceDocsWithout({})
    /\ registry = << >>
    /\ images = 0
    /\ pushSubscriptions = << >>
    /\ cache = {}
    /\ reqs = <<IdleReq, IdleReq>>
    /\ wkArg = << >>
    /\ wkRet = NoCall
    /\ rkWeek = << >>
    /\ rkWeekly = NoCall
    /\ rkOg = NoCall

NextKey ==
    \/ \E c \in DOMAIN reqs, in \in KeyWeeklyInputs : WeeklyStart(c, in)
    \/ \E c \in DOMAIN reqs : WeeklyFindCollection(c)
    \/ \E c \in DOMAIN reqs : WeeklyFindPositions(c)
    \/ \E c \in DOMAIN reqs : WeeklyLookups(c)
    \/ \E c \in DOMAIN reqs : WeeklyCacheSet(c)
    \/ \E c \in DOMAIN reqs : WeeklyRespond(c)
    \/ \E c \in DOMAIN reqs, in \in KeyListInputs : ListStart(c, in)
    \/ \E c \in DOMAIN reqs : ListCacheGet(c)
    \/ \E c \in DOMAIN reqs : ListFindCollection(c)
    \/ \E c \in DOMAIN reqs : ListCountDocuments(c)
    \/ \E c \in DOMAIN reqs : ListFindPositions(c)
    \/ \E c \in DOMAIN reqs : ListLookups(c)
    \/ \E c \in DOMAIN reqs : ListCacheSet(c)
    \/ \E c \in DOMAIN reqs : ListRespond(c)

SpecKey == InitKey /\ [][NextKey]_vars

(***************************************************************************)
(* SpecLimit: one weekly request with any integer for limit                *)
(***************************************************************************)
\* the limits asked for: negative, zero, small, and above the cap of 50
LimitValues == {0 - 2, 0 - 1, 0, 1, 51}

LimitInputs ==
    { WeeklyInput("top-sellers", WeekId(2025, 31), Absent, page, Given(limit)) :
        page \in {Absent} \cup { Given(n) : n \in 0..MaxPage }, limit \in LimitValues }

NextLimit ==
    \/ IngestFirst
    \/ \E c \in DOMAIN reqs, in \in LimitInputs : WeeklyStart(c, in)
    \/ \E c \in DOMAIN reqs : WeeklyFindCollection(c)
    \/ \E c \in DOMAIN reqs : WeeklyFindPositions(c)
    \/ \E c \in DOMAIN reqs : WeeklyLookups(c)
    \/ \E c \in DOMAIN reqs : WeeklyCacheSet(c)
    \/ \E c \in DOMAIN reqs : WeeklyRespond(c)

SpecLimit == InitPage /\ [][NextLimit]_vars

(***************************************************************************)
(* SpecLookup: one weekly request whose batch lookups may fail              *)
(***************************************************************************)
\* the two lookups of the Promise.all
BatchLookups == {"Offer.find", "PriceEngine.find"}

NextLookup ==
    \/ IngestFirst
    \/ \E c \in DOMAIN reqs, in \in PageInputs : WeeklyStart(c, in)
    \/ \E c \in DOMAIN reqs : WeeklyFindCollection(c)
    \/ \E c \in DOMAIN reqs : WeeklyFindPositions(c)
    \/ \E c \in DOMAIN reqs : WeeklyLookups(c)
    \/ \E c \in DOMAIN reqs, failed \in BatchLookups : WeeklyLookupFails(c, failed)
    \/ \E c \in DOMAIN reqs : WeeklyCacheSet(c)
    \/ \E c \in DOMAIN reqs : WeeklyRespond(c)

SpecLookup == InitPage /\ [][NextLookup]_vars

(***************************************************************************)
(* SpecOg: requests of the og route, one after the other, against a store  *)
(* with ten ranked offers                                                  *)
(***************************************************************************)
\* what a client may ask of the og route
OgInput(slug, week, country, svg, direct) ==
    [slug |-> slug, week |-> week, country |-> country, cookie |-> Absent,
     svg |-> svg, direct |-> direct]

OgInputs ==
    { OgInput("top-sellers", WeekId(2025, 31), Absent, svg, direct) :
        svg \in {Absent, Given("1")}, direct \in {Absent, Given("1")} }
    \cup { OgInput("top-sellers", WeekId(2025, 31), Given("ZZ"), Absent, Absent),
           OgInput("top-sellers", <<"2", "0", "2", "5", "W", "3">>, Absent, Absent, Absent),
           OgInput("no-such-collection", WeekId(2025, 31), Absent, Absent, Absent) }

\* ten offers, offer i at position i in 2025W31
OgStore ==
    [i \in 1..OgLimit |->
        [offerId |-> i, positions |-> << [date |-> RefStart, position |-> i] >>]]

\* the Offer and the PriceEngine documents of the first n offers
OgOfferDocs(n) == [i \in 1..n |-> OfferDoc(i)]
OgPriceDocs(n) == [i \in 1..n |-> PriceDoc(i, "US")]

InitOg ==
    /\ gamePositions = OgStore
    /\ collectionDocs = {TopSellers}
    /\ offerDocs \in { OgOfferDocs(OgLimit), OgOfferDocs(OgLimit - 1) }
    /\ priceDocs = OgPriceDocs(OgLimit)
    /\ registry = << >>
    /\ images = 0
    /\ pushSubscriptions = << >>
    /\ cache = {}
    /\ reqs = <<IdleReq>>
    /\ wkArg = << >>
    /\ wkRet = NoCall
    /\ rkWeek = << >>
    /\ rkWeekly = NoCall
    /\ rkOg = NoCall

\* the next request arrives when the one before it has been answered
OgNextRequest ==
    /\ Len(reqs) < MaxRequests + 1
    /\ \A c \in DOMAIN reqs : reqs[c].pc = "done"
    /\ reqs' = Append(reqs, IdleReq)
    /\ UNCHANGED <<weekVars, rankVars, gamePositions, dbVars, cache>>

NextOg ==
    \/ OgNextRequest
    \/ \E c \in DOMAIN reqs, in \in OgInputs : OgStart(c, in)
    \/ \E c \in DOMAIN reqs : OgFindCollection(c)
    \/ \E c \in DOMAIN reqs : OgFindPositions(c)
    \/ \E c \in DOMAIN reqs : OgLookups(c)
    \/ \E c \in DOMAIN reqs : OgRegistryFind(c)
    \/ \E c \in DOMAIN reqs : OgRender(c)
    \/ \E c \in DOMAIN reqs : OgRenderFails(c)
    \/ \E c \in DOMAIN reqs : OgUpload(c)
    \/ \E c \in DOMAIN reqs : OgUploadNotOk(c)
    \/ \E c \in DOMAIN reqs : OgUploadFails(c)
    \/ \E c \in DOMAIN reqs : OgRegistryWrite(c)

SpecOg == InitOg /\ [][NextOg]_vars

(***************************************************************************)
(* SpecPrice: requests of the og route, one after the other, while the     *)
(* price of an offer changes between them                                  *)
(***************************************************************************)
\* the prices offer id may have: those of PriceDoc, or one of the three
\* amounts raised by one
PriceVariants(id) ==
    LET base == PriceDoc(id, "US").price
    IN  { base,
          [base EXCEPT !.discountPrice = @ + 1],
          [base EXCEPT !.originalPrice = @ + 1],
          [base EXCEPT !.discount = @ + 1] }

PriceInputs ==
    { OgInput("top-sellers", WeekId(2025, 31), Absent, svg, Absent) :
        svg \in {Absent, Given("1")} }

InitPrice ==
    /\ gamePositions = OgStore
    /\ collectionDocs = {TopSellers}
    /\ offerDocs = OgOfferDocs(OgLimit)
    /\ priceDocs = OgPriceDocs(OgLimit)
    /\ registry = << >>
    /\ images = 0
    /\ pushSubscriptions = << >>
    /\ cache = {}
    /\ reqs = <<IdleReq>>
    /\ wkArg = << >>
    /\ wkRet = NoCall
    /\ rkWeek = << >>
    /\ rkWeekly = NoCall
    /\ rkOg = NoCall

\* between two requests the price engine reprices the first offer
PriceChange ==
    /\ \A c \in DOMAIN reqs : reqs[c].pc = "done"
    /\ \E price \in PriceVariants(priceDocs[1].offerId) :
          /\ price # priceDocs[1].price
          /\ priceDocs' = [priceDocs EXCEPT ![1].price = price]
    /\ UNCHANGED <<weekVars, rankVars, gamePositions, collectionDocs, offerDocs,
                   registry, images, pushSubscriptions, cache, reqs>>

\* the next request arrives when the one before it has been answered
PriceNextRequest ==
    /\ Len(reqs) < MaxRequests + 2
    /\ \A c \in DOMAIN reqs : reqs[c].pc = "done"
    /\ reqs' = Append(reqs, IdleReq)
    /\ UNCHANGED <<weekVars, rankVars, gamePositions, dbVars, cache>>

NextPrice ==
    \/ PriceNextRequest
    \/ PriceChange
    \/ \E c \in DOMAIN reqs, in \in PriceInputs : OgStart(c, in)
    \/ \E c \in DOMAIN reqs : OgFindCollection(c)
    \/ \E c \in DOMAIN reqs : OgFindPositions(c)
    \/ \E c \in DOMAIN reqs : OgLookups(c)
    \/ \E c \in DOMAIN reqs : OgRegistryFind(c)
    \/ \E c \in DOMAIN reqs : OgRender(c)
    \/ \E c \in DOMAIN reqs : OgUpload(c)
    \/ \E c \in DOMAIN reqs : OgRegistryWrite(c)

SpecPrice == InitPrice /\ [][NextPrice]_vars

(***************************************************************************)
(* SpecCurrency: requests of the og route, one after the other, while the  *)
(* currency of a price changes between them                                *)
(***************************************************************************)
Currencies == {"USD", "EUR"}

\* between two requests the price engine changes the currency the price of
\* the first offer is given in, and nothing else
CurrencyChange ==
    /\ \A c \in DOMAIN reqs : reqs[c].pc = "done"
    /\ \E code \in Currencies :
          /\ code # priceDocs[1].price.currencyCode
          /\ priceDocs' = [priceDocs EXCEPT ![1].price.currencyCode = code]
    /\ UNCHANGED <<weekVars, rankVars, gamePositions, collectionDocs, offerDocs,
                   registry, images, pushSubscriptions, cache, reqs>>

NextCurrency ==
    \/ PriceNextRequest
    \/ CurrencyChange
    \/ \E c \in DOMAIN reqs, in \in PriceInputs : OgStart(c, in)
    \/ \E c \in DOMAIN reqs : OgFindCollection(c)
    \/ \E c \in DOMAIN reqs : OgFindPositions(c)
    \/ \E c \in DOMAIN reqs : OgLookups(c)
    \/ \E c \in DOMAIN reqs : OgRegistryFind(c)
    \/ \E c \in DOMAIN reqs : OgRender(c)
    \/ \E c \in DOMAIN reqs : OgUpload(c)
    \/ \E c \in DOMAIN reqs : OgRegistryWrite(c)

SpecCurrency == InitPrice /\ [][NextCurrency]_vars

(***************************************************************************)
(* SpecEquiv: a request of the weekly route for page 1 with limit 10 and a *)
(* request of the og route against one store, built by ingestion           *)
(***************************************************************************)
EquivWeeklyInputs ==
    { WeeklyInput("top-sellers", WeekId(2025, 31), Absent, Absent, limit) :
        limit \in {Absent, Given(OgLimit)} }

EquivOgInputs == { OgInput("top-sellers", WeekId(2025, 31), Absent, Absent, Absent) }

\* one offer more than the og route shows, the last one ranked first
EquivStore ==
    [i \in 1..(OgLimit + 1) |->
        [offerId |-> i, positions |-> << [date |-> RefStart, position |-> OgLimit + 2 - i] >>]]

InitEquiv ==
    /\ gamePositions \in {EmptyStore, EquivStore}
    /\ collectionDocs = {TopSellers}
    /\ offerDocs \in { OgOfferDocs(OgLimit + 1),
                       SelectSeq(OgOfferDocs(OgLimit + 1), LAMBDA x : x.id # 2) }
    /\ priceDocs = OgPriceDocs(OgLimit + 1)
    /\ registry = << >>
    /\ images = 0
    /\ pushSubscriptions = << >>
    /\ cache = {}
    /\ reqs = <<IdleReq, IdleReq>>
    /\ wkArg = << >>
    /\ wkRet = NoCall
    /\ rkWeek = << >>
    /\ rkWeekly = NoCall
    /\ rkOg = NoCall

\* before the requests, the ingestion process records snapshots of the
\* first two offers
IngestBeforeRequests ==
    /\ \A c \in DOMAIN reqs : reqs[c].pc = "idle"
    /\ \E i \in 1..2, snap \in Snapshots : Ingest(i, snap)
    /\ UNCHANGED <<weekVars, rankVars, dbVars, cache, reqs>>

NextEquiv ==
    \/ IngestBeforeRequests
    \/ \E in \in EquivWeeklyInputs : WeeklyStart(1, in)
    \/ WeeklyFindCollection(1)
    \/ WeeklyFindPositions(1)
    \/ WeeklyLookups(1)
    \/ WeeklyCacheSet(1)
    \/ WeeklyRespond(1)
    \/ \E in \in EquivOgInputs : reqs[1].pc = "done" /\ OgStart(2, in)
    \/ OgFindCollection(2)
    \/ OgFindPositions(2)
    \/ OgLookups(2)
    \/ OgRegistryFind(2)

SpecEquiv == InitEquiv /\ [][NextEquiv]_vars

(***************************************************************************)
(* SpecPush: clients that post to /subscribe at the same time              *)
(***************************************************************************)
\* the number of clients
PushClients == 3

SubscriptionBody(endpoint, keys) == [endpoint |-> endpoint, keys |-> keys]
PushKeys == Given([p256dh |-> "p", auth |-> "a"])

\* what a client may post: as one of two users to one of two endpoints,
\* without an API key, without an endpoint, and without keys
PushInputs ==
    { [apiKey |-> Given(user), body |-> SubscriptionBody(endpoint, PushKeys)] :
        user \in {"u1", "u2"}, endpoint \in {"e1", "e2"} }
    \cup { [apiKey |-> Absent, body |-> SubscriptionBody("e1", PushKeys)],
           [apiKey |-> Given("u1"), body |-> SubscriptionBody("", PushKeys)],
           [apiKey |-> Given("u1"), body |-> SubscriptionBody("e1", Absent)] }

InitPush ==
    /\ gamePositions = << >>
    /\ rkWeek = << >>
    /\ rkWeekly = NoCall
    /\ rkOg = NoCall
    /\ wkArg = << >>
    /\ wkRet = NoCall
    /\ NoRequests

\* a client arrives
PushNextRequest ==
    /\ Len(reqs) < PushClients
    /\ reqs' = Append(reqs, IdleReq)
    /\ UNCHANGED <<weekVars, rankVars, gamePositions, dbVars, cache>>

NextPush ==
    \/ PushNextRequest
    \/ \E c \in DOMAIN reqs, in \in PushInputs : SubscribeStart(c, in)
    \/ \E c \in DOMAIN reqs : SubscribeFindOne(c)
    \/ \E c \in DOMAIN reqs : SubscribeSave(c)
    \/ \E c \in DOMAIN reqs : SubscribeSaveFails(c)

SpecPush == InitPush /\ [][NextPush]_vars

(***************************************************************************)
(* SpecRoutes: requests of the three routes, one after the other, among    *)
(* them requests for a country without region, for a malformed week and    *)
(* for a collection that does not exist                                    *)
(***************************************************************************)
\* ten offers, offer i listed at position i and at position i in 2025W31
RoutesStore ==
    [i \in 1..OgLimit |->
        [offerId |-> i, position |-> i, previous |-> i,
         positions |-> << [date |-> RefStart, position |-> i] >>]]

\* country and cookie of a request for a country that is in no region
UnknownCountries ==
    { [country |-> Given("ZZ"), cookie |-> Absent],
      [country |-> Absent, cookie |-> Given("ZZ")] }

\* week, slug, country and cookie of a request that is in order, and of
\* requests of which one part is not (or, in the last, two)
RouteQueries ==
    { [slug |-> "top-sellers", week |-> WeekId(2025, 31),
       country |-> Absent, cookie |-> Absent],
      [slug |-> "no-such-collection", week |-> WeekId(2025, 31),
       country |-> Absent, cookie |-> Absent] }
    \cup { [slug |-> "top-sellers", week |-> week,
            country |-> Absent, cookie |-> Absent] : week \in MalformedWeeks \ {<< >>} }
    \cup { [slug |-> "top-sellers", week |-> WeekId(2025, 31),
            country |-> cc.country, cookie |-> cc.cookie] : cc \in UnknownCountries }
    \cup { [slug |-> "no-such-collection", week |-> <<"2", "0", "2", "5", "W", "3">>,
            country |-> Given("ZZ"), cookie |-> Absent] }

RoutesWeeklyInputs ==
    { [WeeklyInput(q.slug, q.week, q.country, Absent, Absent) EXCEPT !.cookie = q.cookie] :
        q \in RouteQueries }

RoutesOgInputs ==
    { [OgInput(q.slug, q.week, q.country, Absent, Absent) EXCEPT !.cookie = q.cookie] :
        q \in RouteQueries }

RoutesListInputs ==
    { [ListInput(q.slug, q.country, Absent, Absent) EXCEPT !.cookie = q.cookie] :
        q \in { x \in RouteQueries : x.week = WeekId(2025, 31) } }

InitRoutes ==
    /\ gamePositions = RoutesStore
    /\ collectionDocs = {TopSellers}
    /\ offerDocs = OgOfferDocs(OgLimit)
    /\ priceDocs = OgPriceDocs(OgLimit)
    /\ registry = << >>
    /\ images = 0
    /\ pushSubscriptions = << >>
    /\ cache = {}
    /\ reqs = <<IdleReq>>
    /\ wkArg = << >>
    /\ wkRet = NoCall
    /\ rkWeek = << >>
    /\ rkWeekly = NoCall
    /\ rkOg = NoCall

NextRoutes ==
    \/ NextRequest
    \/ \E c \in DOMAIN reqs, in \in RoutesWeeklyInputs : WeeklyStart(c, in)
    \/ \E c \in DOMAIN reqs : WeeklyFindCollection(c)
    \/ \E c \in DOMAIN reqs : WeeklyFindPositions(c)
    \/ \E c \in DOMAIN reqs : WeeklyLookups(c)
    \/ \E c \in DOMAIN reqs : WeeklyCacheSet(c)
    \/ \E c \in DOMAIN reqs : WeeklyRespond(c)
    \/ \E c \in DOMAIN reqs, in \in RoutesListInputs : ListStart(c, in)
    \/ \E c \in DOMAIN reqs : ListCacheGet(c)
    \/ \E c \in DOMAIN reqs : ListFindCollection(c)
    \/ \E c \in DOMAIN reqs : ListCountDocuments(c)
    \/ \E c \in DOMAIN reqs : ListFindPositions(c)
    \/ \E c \in DOMAIN reqs : ListLookups(c)
    \/ \E c \in DOMAIN reqs : ListCacheSet(c)
    \/ \E c \in DOMAIN reqs : ListRespond(c)
    \/ \E c \in DOMAIN reqs, in \in RoutesOgInputs : OgStart(c, in)
    \/ \E c \in DOMAIN reqs : OgFindCollection(c)
    \/ \E c \in DOMAIN reqs : OgFindPositions(c)
    \/ \E c \in DOMAIN reqs : OgLookups(c)
    \/ \E c \in DOMAIN reqs : OgRegistryFind(c)
    \/ \E c \in DOMAIN reqs : OgRender(c)
    \/ \E c \in DOMAIN reqs : OgUpload(c)
    \/ \E c \in DOMAIN reqs : OgRegistryWrite(c)

SpecRoutes == InitRoutes /\ [][NextRoutes]_vars

(***************************************************************************)
(* C1                                                                      *)
(***************************************************************************)
\* the called identifier is well formed and the call has returned
WeekReturned == wkRet # NoCall /\ WeekRegexMatches(wkArg)

\* January 4th of the civil (proleptic Gregorian) year y, as a day number
CivilJan4(y) == DayFromYear(y) + 3

\* the Monday on or before day d (day 4, 1970-01-05, is a Monday)
MondayOnOrBefore(d) == CHOOSE m \in (d - 6)..d : (m - 4) % 7 = 0

\* what C1 says the range of identifier week is
C1_Expected(week) ==
    LET start == MondayOnOrBefore(CivilJan4(WeekYear(week))) * MsPerDay
                   + (WeekNumber(week) - 1) * 7 * MsPerDay
    IN  [threw |-> FALSE, start |-> start, endExclusive |-> start + 7 * MsPerDay]

\* C1: for every week identifier YYYYWNN, getIsoWeekRangeUTC returns
\* start = (the Monday on or before January 4th of year YYYY, 00:00 UTC)
\* + (NN - 1) * 7 days and end = start + 7 days; end - start is 7 days,
\* start is a Monday at UTC midnight, and 2025W31 is
\* [2025-07-28T00:00Z (day 20297), 2025-08-04T00:00Z (day 20304)).
C1_WeekRange ==
    WeekReturned =>
        /\ wkRet = C1_Expected(wkArg)
        /\ wkRet.endExclusive - wkRet.start = 7 * MsPerDay
        /\ wkRet.start % MsPerDay = 0
        /\ ((wkRet.start \div MsPerDay) - 4) % 7 = 0
        /\ wkArg = WeekId(2025, 31) =>
              /\ wkRet.start = 20297 * MsPerDay
              /\ wkRet.endExclusive = 20304 * MsPerDay

\* C1 for the years Date.UTC takes as they are (YYYY >= 0100): the range is
\* the one C1 states
C1_WeekRangeFrom100 ==
    (WeekReturned /\ WeekYear(wkArg) >= 100) => wkRet = C1_Expected(wkArg)

\* C1, the part that holds of every identifier: a 7-day range that starts
\* on a Monday at UTC midnight, and the pinned example
C1_SevenDaysFromMonday ==
    WeekReturned =>
        /\ wkRet.endExclusive - wkRet.start = 7 * MsPerDay
        /\ wkRet.start % MsPerDay = 0
        /\ ((wkRet.start \div MsPerDay) - 4) % 7 = 0
        /\ wkArg = WeekId(2025, 31) =>
              /\ wkRet.start = 20297 * MsPerDay
              /\ wkRet.endExclusive = 20304 * MsPerDay

(***************************************************************************)
(* C2 - C5: the ranking                                                    *)
(***************************************************************************)
\* the window the specification gives the requested week
ClaimWindow == C1_Expected(rkWeek)

\* snapshot p lies in the half-open window
InClaimWindow(p) == ClaimWindow.start <= p.date /\ p.date < ClaimWindow.endExclusive

\* snapshot p qualifies: in the window, with a position above 0
Qualifies(p) == InClaimWindow(p) /\ p.position > 0

\* the snapshots of a document, as a set
SnapshotsOf(doc) == { doc.positions[j] : j \in 1..Len(doc.positions) }

\* the entries a ranking holds for an offer
EntriesOf(ranked, id) == { k \in 1..Len(ranked) : ranked[k].offerId = id }

\* snapshot p of offer id contributes to a ranking: it is among the
\* snapshots of the offer's entry, or it gives the entry its position
Contributes(ranked, id, p) ==
    \E k \in EntriesOf(ranked, id) :
        \E m \in 1..Len(ranked[k].positions) : ranked[k].positions[m] = p

\* a ranking obeys the half-open window
HalfOpen(ranked) ==
    /\ \A i \in 1..Len(gamePositions) : \A p \in SnapshotsOf(gamePositions[i]) :
          LET id == gamePositions[i].offerId
          IN  /\ Contributes(ranked, id, p) => InClaimWindow(p)
              /\ (p.date = ClaimWindow.start /\ p.position > 0) => Contributes(ranked, id, p)
              /\ p.date = ClaimWindow.endExclusive => ~Contributes(ranked, id, p)
    /\ \A k \in 1..Len(ranked) :
          \E m \in 1..Len(ranked[k].positions) :
              /\ ranked[k].positions[m].position = ranked[k].position
              /\ InClaimWindow(ranked[k].positions[m])

\* C2: in the weekly route and in the og route a snapshot contributes to an
\* item's ranking only if start <= date < end: a snapshot dated exactly at
\* start is counted and one dated exactly at end is never counted.
C2_HalfOpenWindow ==
    /\ rkWeekly # NoCall => HalfOpen(rkWeekly.ranked)
    /\ rkOg # NoCall => HalfOpen(rkOg.ranked)

\* both routes have ranked a store that holds a ranked snapshot at the first
\* instant of the window and one at the window's end
C2_Witness ==
    /\ rkWeekly # NoCall /\ rkOg # NoCall
    /\ \E i \in 1..Len(gamePositions) : \E p \in SnapshotsOf(gamePositions[i]) :
          /\ p.date = ClaimWindow.start /\ p.position > 0
          /\ Contributes(rkWeekly.ranked, gamePositions[i].offerId, p)
          /\ Contributes(rkOg.ranked, gamePositions[i].offerId, p)
    /\ \E i \in 1..Len(gamePositions) : \E p \in SnapshotsOf(gamePositions[i]) :
          p.date = ClaimWindow.endExclusive /\ p.position > 0

\* C3: a snapshot with position <= 0 never contributes to the ranking: it
\* is never an item's representative, it is absent from the entry's
\* snapshots, and an item whose in-window snapshots all have a position
\* <= 0 is not ranked, whatever its snapshots outside the window are.
C3_NonPositiveNeverRanked ==
    rkWeekly # NoCall =>
        /\ \A k \in 1..Len(rkWeekly.ranked) :
              /\ rkWeekly.ranked[k].position > 0
              /\ \A m \in 1..Len(rkWeekly.ranked[k].positions) :
                    rkWeekly.ranked[k].positions[m].position > 0
        /\ \A i \in 1..Len(gamePositions) :
              (\A p \in SnapshotsOf(gamePositions[i]) : InClaimWindow(p) => p.position <= 0)
                  => EntriesOf(rkWeekly.ranked, gamePositions[i].offerId) = {}

\* ranked: an item whose only in-window snapshot has position 0 and that
\* has a snapshot with a position above 0 outside the window
C3_Witness ==
    /\ rkWeekly # NoCall
    /\ \E i \in 1..Len(gamePositions) :
          /\ \E p \in SnapshotsOf(gamePositions[i]) : InClaimWindow(p) /\ p.position = 0
          /\ \E p \in SnapshotsOf(gamePositions[i]) : ~InClaimWindow(p) /\ p.position > 0
          /\ EntriesOf(rkWeekly.ranked, gamePositions[i].offerId) = {}

\* C4: for every item with a qualifying snapshot, the position of its
\* ranked entry is the position of a qualifying snapshot whose date is the
\* maximum among the item's qualifying snapshots, whether that position is
\* larger or smaller than the earlier ones.
C4_LatestSnapshotWins ==
    rkWeekly # NoCall =>
        \A i \in 1..Len(gamePositions) :
            LET Q == { p \in SnapshotsOf(gamePositions[i]) : Qualifies(p) }
                E == EntriesOf(rkWeekly.ranked, gamePositions[i].offerId)
            IN  Q # {} =>
                  /\ Cardinality(E) = 1
                  /\ \A k \in E : \E p \in Q :
                        /\ \A q \in Q : q.date <= p.date
                        /\ rkWeekly.ranked[k].position = p.position

\* ranked: an item with two qualifying snapshots (t1, pos 2), (t2, pos 1),
\* t1 < t2, whose entry has position 1
C4_Witness ==
    /\ rkWeekly # NoCall
    /\ \E i \in 1..Len(gamePositions) :
          LET ps == gamePositions[i].positions
          IN  /\ Len(ps) = 2 /\ Qualifies(ps[1]) /\ Qualifies(ps[2])
              /\ ps[1].date < ps[2].date
              /\ ps[1].position = 2 /\ ps[2].position = 1
              /\ \E k \in EntriesOf(rkWeekly.ranked, gamePositions[i].offerId) :
                    rkWeekly.ranked[k].position = 1

\* C5: the ranking of a window is ascending by representative position:
\* for entries at indexes i < j, position(i) <= position(j).
C5_RankedAscending ==
    rkWeekly # NoCall =>
        \A i, j \in 1..Len(rkWeekly.ranked) :
            i < j => rkWeekly.ranked[i].position <= rkWeekly.ranked[j].position

\* ranked: two items the store returns in the order opposite to their rank
C5_Witness ==
    /\ rkWeekly # NoCall
    /\ Len(rkWeekly.ranked) >= 2
    /\ rkWeekly.ranked[1].position < rkWeekly.ranked[2].position
    /\ rkWeekly.ranked[1].offerId > rkWeekly.ranked[2].offerId

(***************************************************************************)
(* C6 - C8: the page                                                       *)
(***************************************************************************)
\* snapshot p qualifies for window w
QualifiesIn(p, w) == w.start <= p.date /\ p.date < w.endExclusive /\ p.position > 0

\* the documents of the store with a snapshot that qualifies for the week
\* request r asks for
QualifyingItems(r) ==
    { i \in 1..Len(gamePositions) :
        \E p \in SnapshotsOf(gamePositions[i]) : QualifiesIn(p, C1_Expected(r.in.week)) }

\* request r is a weekly request that has assembled its result
Assembled(r) == r.pc # "idle" /\ r.route = "weekly" /\ r.result # Null

\* request r is a weekly request answered with a page
AnsweredPage(r) == Assembled(r) /\ r.pc = "done" /\ r.response.status = 200

\* C6: Page.total is the number of items of the collection with at least
\* one qualifying snapshot in the window, for every page and limit, also
\* when rows of the slice are dropped for want of metadata or price.
C6_TotalCountsRankedItems ==
    \A c \in DOMAIN reqs :
        /\ Assembled(reqs[c]) => reqs[c].result.total = Cardinality(QualifyingItems(reqs[c]))
        /\ AnsweredPage(reqs[c]) =>
              reqs[c].response.body.json.total = Cardinality(QualifyingItems(reqs[c]))

\* a page of limit 1 answered with total 2 in a collection of more items,
\* its only row dropped
C6_Witness ==
    \E c \in DOMAIN reqs :
        /\ AnsweredPage(reqs[c])
        /\ reqs[c].limit = 1
        /\ reqs[c].response.body.json.total = 2
        /\ Len(gamePositions) > 2
        /\ Len(reqs[c].pageItems) = 1
        /\ reqs[c].response.body.json.elements = << >>

\* pages p..last of limit L of a ranking, one after the other
RECURSIVE ConcatPages(_, _, _, _)
ConcatPages(ranked, L, p, last) ==
    IF p > last THEN << >>
    ELSE PageItems(ranked, Skip(p, L), L) \o ConcatPages(ranked, L, p + 1, last)

\* the pages of limit L on which the offer of entry k of a ranking appears
PagesHolding(ranked, L, k) ==
    { p \in 1..(Len(ranked) + 1) :
        \E i \in 1..Len(PageItems(ranked, Skip(p, L), L)) :
            PageItems(ranked, Skip(p, L), L)[i].offerId = ranked[k].offerId }

\* request r is a weekly request that has ranked and sliced
Sliced(r) ==
    r.pc # "idle" /\ r.route = "weekly" /\ r.pc \in {"lookups", "cacheSet", "respond", "done"}
        /\ r.collection # Null

\* C7: for a limit L >= 1 and an unchanged store, the slices of pages
\* 1, 2, 3, ... (skip = 0, L, 2L, ...) concatenated are the full ranking:
\* every ranked item is on exactly one page, in ranking order.
C7_PagesPartitionRanking ==
    \A c \in DOMAIN reqs :
        (Sliced(reqs[c]) /\ reqs[c].limit >= 1) =>
            LET r == reqs[c]
            IN  /\ ConcatPages(r.ranked, r.limit, 1, Len(r.ranked) + 1) = r.ranked
                /\ \A k \in 1..Len(r.ranked) :
                      Cardinality(PagesHolding(r.ranked, r.limit, k)) = 1
                /\ r.pageItems = PageItems(r.ranked, Skip(r.page, r.limit), r.limit)
                /\ \A i \in 1..Len(r.pageItems) :
                      r.pageItems[i] = r.ranked[(r.page - 1) * r.limit + i]

\* page 2 of limit 1 of a ranking of two items holds the second
C7_Witness ==
    \E c \in DOMAIN reqs :
        /\ Sliced(reqs[c])
        /\ reqs[c].limit = 1 /\ reqs[c].page = 2
        /\ Len(reqs[c].ranked) = 2
        /\ reqs[c].pageItems = <<reqs[c].ranked[2]>>

\* the slice ranking[skip : skip + limit] of request r, for limit >= 1
ClaimSlice(r) ==
    SubSeq(r.ranked, (r.page - 1) * r.limit + 1, Min(r.page * r.limit, Len(r.ranked)))

\* a metadata record, a price record exists for offer id (in region)
HasOfferDoc(id) == \E i \in 1..Len(offerDocs) : offerDocs[i].id = id
HasPriceDoc(id, region) ==
    \E i \in 1..Len(priceDocs) : priceDocs[i].offerId = id /\ priceDocs[i].region = region

\* C8: the elements of a weekly page are the entries of
\* ranking[skip : skip + limit] for which a metadata record and a price
\* record were returned, in the ranking's order; an entry missing either is
\* dropped and the request still succeeds.
C8_ElementsAreJoinedSlice ==
    \A c \in DOMAIN reqs :
        LET r == reqs[c]
        IN  /\ (Sliced(r) /\ r.pc = "done") => r.response.status = 200
            /\ (AnsweredPage(r) /\ r.limit >= 1) =>
                  LET kept == SelectSeq(ClaimSlice(r),
                                        LAMBDA o : HasOfferDoc(o.offerId)
                                                     /\ HasPriceDoc(o.offerId, r.region))
                      elements == r.response.body.json.elements
                  IN  /\ Len(elements) = Len(kept)
                      /\ \A i \in 1..Len(kept) :
                            /\ elements[i].id = kept[i].offerId
                            /\ elements[i].metadata = EntryToJSON(kept[i])
                            /\ elements[i].price.offerId = kept[i].offerId
                            /\ elements[i].price.region = r.region

\* a page whose slice holds two entries, the first dropped and the second kept
C8_Witness ==
    \E c \in DOMAIN reqs :
        /\ AnsweredPage(reqs[c])
        /\ Len(reqs[c].pageItems) = 2
        /\ Len(reqs[c].response.body.json.elements) = 1
        /\ reqs[c].response.body.json.elements[1].id = reqs[c].pageItems[2].offerId

(***************************************************************************)
(* C9 - C10: the cache                                                     *)
(***************************************************************************)
\* the calls of the pipeline: the snapshot fetch and the two lookups
PipelineOps == {"GamePosition.countDocuments", "GamePosition.find",
                "Offer.find", "PriceEngine.find"}

\* the request ran (part of) the pipeline
RanPipeline(r) ==
    \/ \E k \in 1..Len(r.calls) : r.calls[k].op \in PipelineOps
    \/ r.result # Null

\* the request was entered while its cache key held an entry
EnteredOnHit(r) == r.pc # "idle" /\ r.cachedAtStart # Null

\* C9: a request of the weekly route whose cache key holds an unexpired
\* entry when it arrives fetches no snapshots, looks nothing up, computes
\* no result and answers with the stored payload, unchanged.
C9_CacheHitSkipsPipeline ==
    \A c \in DOMAIN reqs :
        LET r == reqs[c]
        IN  (EnteredOnHit(r) /\ r.route = "weekly") =>
               /\ ~RanPipeline(r)
               /\ r.pc = "done" =>
                     r.response = [status |-> 200, body |-> r.cachedAtStart]

\* the last call the handler has made
LastCall(r) == r.calls[Len(r.calls)]

\* the step of request c in which its client.set is answered
IsStore(c) == reqs[c].pc = "cacheSet" /\ reqs'[c].pc = "respond"

\* the step in which request c, having assembled a result, is answered 200
IsAnswer(c) ==
    /\ reqs[c].pc \notin {"idle", "done"}
    /\ reqs[c].result # Null
    /\ reqs'[c].pc = "done"
    /\ reqs'[c].response.status = 200

\* C10: a request of either data route that runs the pipeline to its end
\* stores its payload under its cache key with a time to live of 3600
\* seconds once the result is assembled and before it answers, and the
\* payload it then returns is the payload it stored.
C10_StoredThenReturned ==
    [][\A c \in DOMAIN reqs :
          /\ IsStore(c) =>
                /\ reqs[c].result # Null
                /\ reqs[c].response = NoResponse
                /\ LastCall(reqs[c]).op = "client.set"
                /\ { e \in cache' : e.key = reqs[c].cacheKey }
                      = { [key |-> reqs[c].cacheKey,
                           value |-> LastCall(reqs[c]).value, ex |-> 3600] }
          /\ IsAnswer(c) =>
                /\ reqs[c].pc = "respond"
                /\ LastCall(reqs[c]).op = "client.set"
                /\ LastCall(reqs[c]).key = reqs[c].cacheKey
                /\ LastCall(reqs[c]).ex = 3600
                /\ reqs'[c].response.body = LastCall(reqs[c]).value]_vars

\* a request that missed, ran the pipeline and was answered 200 with the
\* payload the cache now holds under its key
MissAnswered(r) ==
    /\ r.pc = "done"
    /\ r.cachedAtStart = Null
    /\ r.result # Null
    /\ r.response.status = 200
    /\ Len(r.response.body.json.elements) > 0
    /\ [key |-> r.cacheKey, value |-> r.response.body, ex |-> 3600] \in cache

C10_Witness ==
    /\ \E c \in DOMAIN reqs : MissAnswered(reqs[c]) /\ reqs[c].route = "weekly"
    /\ \E c \in DOMAIN reqs : MissAnswered(reqs[c]) /\ reqs[c].route = "list"

(***************************************************************************)
(* C11: cache failures                                                     *)
(***************************************************************************)
\* a call to the cache that request r made was rejected
CacheCallRejected(r) ==
    \E k \in 1..Len(r.calls) :
        r.calls[k].op = "rejected" /\ r.calls[k].of \in {"client.get", "client.set"}

\* C11: a request of a data route is never answered with an error because
\* a call to the cache failed: after a failed cache read the page is
\* computed and returned, after a failed cache write the computed page is
\* returned (or the request ends with its own 404).
C11_CacheIsBestEffort ==
    \A c \in DOMAIN reqs :
        LET r == reqs[c]
        IN  (r.pc = "done" /\ CacheCallRejected(r)) =>
               /\ r.response.status \in {200, 404}
               /\ r.response.status = 200 =>
                     /\ r.result # Null
                     /\ r.response.body.json.total = r.result.total

(***************************************************************************)
(* C12 - C17: the registry of rendered images                              *)
(***************************************************************************)
\* request r of the og route has made a call of one of ops
Called(r, ops) == \E k \in 1..Len(r.calls) : r.calls[k].op \in ops

\* request r of the og route got past its lookups
OgHashed(r) == r.pc # "idle" /\ r.route = "og" /\ r.hash # Null

\* r asks for neither a forced render nor for raw bytes
Plain(r) == ~Truthy(r.in.svg) /\ ~Truthy(r.in.direct)

\* the registry lookup of r found a row
FoundExisting(r) == OgHashed(r) /\ r.pc # "registryFind" /\ r.existing # Null

\* C12: a request of the og route without svg and without direct whose
\* registry lookup finds a row for its hash is answered 200 with that row's
\* imageId and the url of that imageId, and calls neither the renderer nor
\* the image store nor the registry's updateOne.
C12_RegistryHitReturnsStored ==
    \A c \in DOMAIN reqs :
        LET r == reqs[c]
        IN  (FoundExisting(r) /\ Plain(r)) =>
               /\ r.pc = "done"
               /\ r.existing.hash = r.hash
               /\ r.response = [status |-> 200,
                                body |-> [id |-> r.existing.imageId,
                                          url |-> OgUrl(r.existing.imageId)]]
               /\ ~Called(r, {"satori", "fetch", "tops-og.updateOne"})

C12_Witness ==
    \E c \in DOMAIN reqs :
        /\ FoundExisting(reqs[c]) /\ Plain(reqs[c])
        /\ reqs[c].pc = "done"
        /\ reqs[c].response.status = 200
        /\ \E k \in 1..Len(registry) : registry[k].imageId = reqs[c].response.body.id

\* C13: the registry never holds two rows with the same hash, whatever
\* requests of the og route have run.
C13_OneRowPerHash ==
    \A j, k \in 1..Len(registry) :
        registry[j].hash = registry[k].hash => j = k

\* request r of the og route was answered with a reference to an image
AnsweredImage(r) == OgHashed(r) /\ r.pc = "done" /\ r.response.status = 200

PriceChanged(r1, r2) ==
    /\ Len(r1.rows) = Len(r2.rows)
    /\ \A i \in 1..Len(r1.rows) :
          /\ r1.rows[i].id = r2.rows[i].id
          /\ r1.rows[i].metadata.position = r2.rows[i].metadata.position
    /\ \E i \in 1..Len(r1.rows) :
          \/ r1.rows[i].price.price.discountPrice # r2.rows[i].price.price.discountPrice
          \/ r1.rows[i].price.price.originalPrice # r2.rows[i].price.price.originalPrice
          \/ r1.rows[i].price.price.discount # r2.rows[i].price.price.discount

\* r2 follows r1, both ask for a reference to an image of the same week and
\* region and were answered, and a price changed in between
RepricedPair(c1, c2) ==
    /\ c1 < c2
    /\ AnsweredImage(reqs[c1]) /\ ~Truthy(reqs[c1].in.direct)
    /\ OgHashed(reqs[c2]) /\ reqs[c2].pc = "done" /\ ~Truthy(reqs[c2].in.direct)
    /\ reqs[c1].in.week = reqs[c2].in.week
    /\ reqs[c1].region = reqs[c2].region
    /\ PriceChanged(reqs[c1], reqs[c2])

\* the registry row r1 was answered from, or wrote
UsesEntryOf(r2, r1) ==
    r2.existing # Null /\ r2.existing.imageId = r1.response.body.id

\* C15 as stated: after a price change the second request does not reuse
\* the first one's row, renders and uploads again, and is answered with
\* another image id.
C15_RepricedRendersAgain ==
    \A c1, c2 \in DOMAIN reqs :
        RepricedPair(c1, c2) =>
            /\ ~UsesEntryOf(reqs[c2], reqs[c1])
            /\ Called(reqs[c2], {"satori"}) /\ Called(reqs[c2], {"fetch"})
            /\ reqs[c2].response.status = 200
            /\ reqs[c2].response.body.id # reqs[c1].response.body.id

\* C15: after a price change the second request does not reuse the first
\* one's row and is answered with another image id; it renders and uploads
\* again unless it is not forced and the registry already holds a row for
\* the new content (written by another request that ran at those prices
\* before it), in which case it is answered from that row.
C15_RepricedNeverReusesFirst ==
    \A c1, c2 \in DOMAIN reqs :
        RepricedPair(c1, c2) =>
            /\ reqs[c1].hash # reqs[c2].hash
            /\ ~UsesEntryOf(reqs[c2], reqs[c1])
            /\ reqs[c2].response.status = 200
            /\ reqs[c2].response.body.id # reqs[c1].response.body.id
            /\ (Called(reqs[c2], {"satori"}) /\ Called(reqs[c2], {"fetch"}))
                  <=> (reqs[c2].existing = Null)
            /\ reqs[c2].existing # Null =>
                  /\ reqs[c2].existing.hash = reqs[c2].hash
                  /\ \E c0 \in 1..(c2 - 1) :
                        /\ c0 # c1
                        /\ reqs[c0].hash = reqs[c2].hash
                        /\ reqs[c0].imageId = reqs[c2].existing.imageId

\* the price changes between two requests and the second one renders and
\* uploads; the price changes back and the third one is answered from the
\* first one's row
C15_Witness ==
    /\ Len(reqs) > 2
    /\ RepricedPair(1, 2) /\ RepricedPair(2, 3)
    /\ reqs[2].existing = Null /\ Called(reqs[2], {"fetch"})
    /\ reqs[3].existing # Null /\ UsesEntryOf(reqs[3], reqs[1])

\* rendering or uploading failed in request r
RenderOrUploadFailed(r) ==
    /\ OgHashed(r) /\ r.pc = "done"
    /\ \/ \E k \in 1..Len(r.calls) :
             r.calls[k].op = "rejected" /\ r.calls[k].of \in {"satori", "fetch"}
       \/ r.response = [status |-> 400, body |-> [error |-> "Failed to upload image"]]

\* request r uploaded an image and wrote its row
WroteRow(r) == AnsweredImage(r) /\ r.imageId # 0

\* request r was told what the registry holds for its hash
Looked(r) ==
    /\ OgHashed(r) /\ ~Truthy(r.in.svg)
    /\ r.pc # "registryFind"

\* c2 asks for the content of the failed request c1, after it
AfterFailure(c1, c2) ==
    /\ c1 < c2
    /\ RenderOrUploadFailed(reqs[c1])
    /\ Looked(reqs[c2])
    /\ reqs[c2].hash = reqs[c1].hash

C17_DirectTouchesNoRegistry ==
    \A c \in DOMAIN reqs :
        LET r == reqs[c]
        IN  (r.pc # "idle" /\ r.route = "og" /\ Truthy(r.in.direct)) =>
               /\ ~Called(r, {"tops-og.findOne", "tops-og.updateOne", "fetch"})
               /\ (r.pc = "done" /\ r.response.status = 200) =>
                     r.response.body = RenderPng(r.in.week, r.region, r.rows, r.window)

(***************************************************************************)
(* C18 - C19: requests that are rejected                                   *)
(***************************************************************************)
\* the week identifier of the request is not four digits, W, two digits
MalformedWeek(r) ==
    ~(/\ Len(r.in.week) = 7
      /\ \A i \in {1, 2, 3, 4, 6, 7} : r.in.week[i] \in {"0", "1", "2", "3", "4",
                                                         "5", "6", "7", "8", "9"}
      /\ r.in.week[5] = "W")

\* the country of the request (the query parameter, else the cookie, else
\* US) is in no region
UnknownCountry(r) ==
    LET country == IF r.in.country.given THEN r.in.country.v
                   ELSE IF r.in.cookie.given THEN r.in.cookie.v ELSE "US"
    IN  \A i \in 1..Len(regions) : country \notin regions[i].countries

\* the answers that did not come from a request for a week that is
\* malformed or a country that is unknown
Accepted(c) ==
    reqs[c].pc # "idle"
        /\ ~(reqs[c].route \in {"weekly", "og"} /\ MalformedWeek(reqs[c]))
        /\ ~UnknownCountry(reqs[c])

\* C18: a request of the weekly route or of the og route whose week is
\* malformed or whose country is in no region is answered with an error
\* without a single external call, and leaves nothing in the cache, the
\* registry or the image store.
C18_RejectedBeforeAnyCall ==
    /\ \A c \in DOMAIN reqs :
          LET r == reqs[c]
          IN  (/\ r.pc # "idle" /\ r.route \in {"weekly", "og"}
               /\ MalformedWeek(r) \/ UnknownCountry(r)) =>
                  /\ r.pc = "done"
                  /\ r.calls = << >>
                  /\ r.response.status \in {404, 500}
                  /\ UnknownCountry(r) => r.response.status = 404
    /\ (\A c \in DOMAIN reqs : ~Accepted(c)) =>
          cache = {} /\ registry = << >> /\ images = 0

C18_Witness ==
    /\ Len(reqs) > 1
    /\ reqs[1].pc = "done" /\ reqs[1].route = "weekly"
    /\ MalformedWeek(reqs[1]) /\ ~UnknownCountry(reqs[1])
    /\ reqs[1].response.status = 500
    /\ reqs[2].pc = "done" /\ reqs[2].route = "og"
    /\ UnknownCountry(reqs[2]) /\ ~MalformedWeek(reqs[2])
    /\ reqs[2].in.cookie.given
    /\ reqs[2].response.status = 404

\* request r was told that no collection has its slug
NotFound(r) ==
    /\ r.pc \notin {"idle", "start", "cacheGet", "findCollection"}
    /\ \A d \in collectionDocs : d._id # r.in.slug
    /\ Len(r.calls) > 0

\* the payloads of the requests that assembled a page
Pages ==
    { reqs[c].calls[Len(reqs[c].calls)].value :
        c \in { k \in DOMAIN reqs : reqs[k].pc \in {"respond", "done"}
                                     /\ reqs[k].result # Null } }

\* C19: a request of any of the three routes for a slug that no collection
\* has ends with status 404 as soon as Collection.findOne has answered: it
\* is the last call the request makes, so no snapshots are fetched,
\* nothing is looked up, and neither the cache nor the registry is
\* written; what the cache holds are pages only.
C19_NotFoundIsTerminal ==
    /\ \A c \in DOMAIN reqs :
          LET r == reqs[c]
          IN  NotFound(r) =>
                 /\ r.pc = "done"
                 /\ r.response.status = 404
                 /\ LastCall(r).op = "Collection.findOne"
                 /\ ~Called(r, {"GamePosition.find", "GamePosition.countDocuments",
                                "Offer.find", "PriceEngine.find", "client.set",
                                "satori", "fetch", "tops-og.updateOne"})
    /\ \A e \in cache : e.value \in Pages
    /\ (\A c \in DOMAIN reqs : reqs[c].pc # "idle" => NotFound(reqs[c])) =>
          cache = {} /\ registry = << >> /\ images = 0

C19_Witness ==
    /\ Len(reqs) > 1
    /\ NotFound(reqs[1]) /\ reqs[1].route = "list" /\ reqs[1].pc = "done"
    /\ NotFound(reqs[2]) /\ reqs[2].route = "og" /\ reqs[2].pc = "done"
    /\ cache = {}

(***************************************************************************)
(* C20: ties of the ranking                                                *)
(***************************************************************************)
\* the documents of the collection in another order
Reordered(docs, perm) == [i \in 1..Len(docs) |-> docs[perm[i]]]

\* request r of the weekly route has ranked the collection
HasRanked(r) ==
    /\ r.pc \in {"lookups", "cacheSet", "respond", "done"}
    /\ r.route = "weekly"
    /\ r.collection # Null

\* C20: the ranking and the page of a request of the weekly route are the
\* ones it would have computed had GamePosition.find returned the same
\* documents in any other order.
C20_RankingIgnoresStoreOrder ==
    \A c \in DOMAIN reqs :
        LET r == reqs[c]
        IN  HasRanked(r) =>
               \A perm \in Permutations(1..Len(gamePositions)) :
                   LET ranked == Ranked(Reordered(gamePositions, perm),
                                        r.window.start, r.window.endExclusive)
                   IN  /\ ranked = r.ranked
                       /\ PageItems(ranked, r.skip, r.limit) = r.pageItems

(***************************************************************************)
(* C21: snapshots that share the latest date                               *)
(***************************************************************************)
\* the store with the position history of offer i in another order
HistoryReordered(docs, i, perm) ==
    [docs EXCEPT ![i].positions = Reordered(docs[i].positions, perm)]

\* the item and the position of every entry of a ranking
RankedPositions(ranked) ==
    [k \in 1..Len(ranked) |-> [offerId |-> ranked[k].offerId,
                               position |-> ranked[k].position]]

\* C21: the position of every entry of the ranking of the weekly route is
\* the one it would have had the snapshots of an item been stored in any
\* other order in the item's position history (in particular when several
\* qualifying snapshots share the latest date).
C21_TieBreakIgnoresHistoryOrder ==
    rkWeekly # NoCall =>
        LET w == getIsoWeekRangeUTC(rkWeek)
        IN  \A i \in 1..Len(gamePositions) :
               \A perm \in Permutations(1..Len(gamePositions[i].positions)) :
                   RankedPositions(Ranked(HistoryReordered(gamePositions, i, perm),
                                          w.start, w.endExclusive))
                       = RankedPositions(rkWeekly.ranked)

(***************************************************************************)
(* C22: a batch lookup fails                                               *)
(***************************************************************************)
\* one of the two batch lookups of request r was rejected
LookupRejected(r) ==
    \E k \in 1..Len(r.calls) :
        r.calls[k].op = "rejected" /\ r.calls[k].of \in BatchLookups

\* C22: a request of the weekly route in which one of the two batch lookups
\* (Offer.find, PriceEngine.find) fails while every other call succeeds
\* completes with status 200 and a page, never with an error.
C22_LookupFailureDegrades ==
    \A c \in DOMAIN reqs :
        LET r == reqs[c]
        IN  (r.pc = "done" /\ r.route = "weekly" /\ LookupRejected(r)) =>
                r.response.status = 200

(***************************************************************************)
(* C23: the paths of a request of the og route                             *)
(***************************************************************************)
\* the state of the artifact state machine a request is in
Phase(r) ==
    CASE r.pc = "idle" -> "None"
      [] r.pc = "render" -> "Rendering"
      [] r.pc = "upload" -> "Uploading"
      [] r.pc = "registryWrite" -> "RegistryWrite"
      [] r.pc = "done" -> "Done"
      [] OTHER -> "Unresolved"

\* the awaits of the og route in the order of the code
OgAwaits == <<"idle", "findCollection", "findPositions", "lookups", "registryFind",
              "render", "upload", "registryWrite", "done">>
AwaitIndex(pc) == CHOOSE k \in 1..Len(OgAwaits) : OgAwaits[k] = pc

EndsWithError(r) == r.pc = "done" /\ r.response.status >= 400

\* CacheHit: the request ends with the stored reference
EndsWithStored(r) ==
    /\ r.pc = "done"
    /\ r.existing # Null
    /\ r.response = [status |-> 200, body |-> OgPayload(r.existing.imageId)]

\* the request ends with the reference of the image it uploaded
EndsWithUploaded(r) ==
    /\ r.pc = "done"
    /\ r.response = [status |-> 200, body |-> OgPayload(r.imageId)]

\* the request ends with the bytes it rendered
EndsWithBytes(r) ==
    /\ r.pc = "done"
    /\ Truthy(r.in.direct)
    /\ r.response = [status |-> 200,
                     body |-> RenderPng(r.in.week, r.region, r.rows, r.window)]

\* a step of request c along one of the two paths (a request that is
\* rejected or fails while it is resolved, rendered or uploaded ends with
\* an error)
TwoPathStep(c) ==
    LET r == reqs[c]
        q == reqs'[c]
        from == Phase(r)
        to == Phase(q)
    IN  \/ q = r
        \/ /\ AwaitIndex(r.pc) < AwaitIndex(q.pc)
           /\ \/ from = "None" /\ to = "Unresolved"
              \/ from \in {"None", "Unresolved"} /\ EndsWithError(q)
              \/ from = "Unresolved" /\ to = "Unresolved"
              \/ from = "Unresolved" /\ EndsWithStored(q)
              \/ from = "Unresolved" /\ to = "Rendering" /\ q.existing = Null
              \/ from = "Rendering" /\ to = "Uploading"
              \/ from = "Rendering" /\ EndsWithError(q)
              \/ from = "Uploading" /\ to = "RegistryWrite"
              \/ from = "Uploading" /\ EndsWithError(q)
              \/ from = "RegistryWrite" /\ EndsWithUploaded(q)

\* a step of a request for the raw bytes: it is rendered whether or not
\* the registry holds its hash, and ends with the bytes
RawBytesStep(c) ==
    LET r == reqs[c]
        q == reqs'[c]
    IN  /\ Truthy(q.in.direct)
        /\ \/ Phase(r) = "Unresolved" /\ Phase(q) = "Rendering"
           \/ Phase(r) = "Rendering" /\ EndsWithBytes(q)

\* C23 as stated: every request of the og route goes Unresolved, CacheHit,
\* Done or Unresolved, CacheMiss, Rendering, Uploading, RegistryWrite, Done,
\* in that order and without repeating a step; a failure at Rendering or
\* Uploading ends it with an error.
C23_TwoPathsOnly == [][\A c \in DOMAIN reqs : TwoPathStep(c)]_vars

\* C23 amended: besides the two paths, a request for the raw bytes goes
\* Unresolved, Rendering, Done, with neither upload nor registry write,
\* whether or not the registry holds its hash; no step is repeated and a
\* failure at Rendering or Uploading ends the request with an error.
C23_TwoPathsOrRawBytes ==
    [][\A c \in DOMAIN reqs : TwoPathStep(c) \/ RawBytesStep(c)]_vars

\* a plain request went the whole miss path, the next one was answered from
\* the registry, and a third one was answered with the bytes
C23_Witness ==
    /\ Len(reqs) >= 3
    /\ EndsWithUploaded(reqs[1]) /\ reqs[1].imageId > 0
    /\ EndsWithStored(reqs[2])
    /\ EndsWithBytes(reqs[3])

(***************************************************************************)
(* C24: what the hash covers                                               *)
(***************************************************************************)
\* what the image of request r shows
Shown(r) == RenderPng(r.in.week, r.region, r.rows, r.window)

\* request r has joined ten rows, so its layout can be built
Renderable(r) == OgHashed(r) /\ ~RowsThrow(r.rows)

\* C24: two requests of the og route whose images show different content
\* (week, region, order of the rows, title, prices, discount or currency of
\* a row) have different content hashes, and a request answered from the
\* registry is given an image that shows what its own render would show.
C24_HashCoversDisplayed ==
    \A c1, c2 \in DOMAIN reqs :
        LET r1 == reqs[c1]
            r2 == reqs[c2]
        IN  /\ (Renderable(r1) /\ Renderable(r2) /\ Shown(r1) # Shown(r2)) =>
                   r1.hash # r2.hash
            /\ (Renderable(r1) /\ WroteRow(r1) /\ EndsWithStored(r2)
                  /\ r2.existing.imageId = r1.imageId) =>
                   Shown(r1) = Shown(r2)

(***************************************************************************)
(* C25: the size of a page                                                 *)
(***************************************************************************)
\* C25: the page a request of the weekly route is answered with holds at
\* most 50 elements and at most limit elements (none when limit is zero or
\* negative), whatever integers page and limit are.
C25_PageWithinLimit ==
    \A c \in DOMAIN reqs :
        LET r == reqs[c]
        IN  AnsweredPage(r) =>
               /\ Len(r.result.elements) <= 50
               /\ Len(r.result.elements) <= Max(r.limit, 0)

(***************************************************************************)
(* C26: two requests with one cache key at the same time                   *)
(***************************************************************************)
\* the collection request r asks for
CollectionOf(r) == CHOOSE d \in collectionDocs : d._id = r.in.slug

\* the text a request of the weekly route with the parameters of r stores
\* and returns when it runs alone against the store
SingleWeeklyPage(r) ==
    LET ranked == Ranked(gamePositions, r.window.start, r.window.endExclusive)
        pageItems == PageItems(ranked, r.skip, r.limit)
        ids == { pageItems[i].offerId : i \in 1..Len(pageItems) }
    IN  StringifyWeekly(
            WeeklyResult(OffersWithMetadata(pageItems, FindOffers(ids),
                                            FindPrices(ids, r.region)),
                         r.page, r.limit, CollectionOf(r), ranked, r.window))

\* the same for the list route
SingleListPage(r) ==
    LET offersList == FindListed(gamePositions, r.limit, r.skip)
        ids == { offersList[i].offerId : i \in 1..Len(offersList) }
    IN  StringifyList(
            ListResult(FindOffers(ids), FindPrices(ids, r.region), offersList,
                       r.page, r.limit, CollectionOf(r), CountListed(gamePositions)))

SinglePage(r) == IF r.route = "weekly" THEN SingleWeeklyPage(r) ELSE SingleListPage(r)

\* requests c1 and c2 ran at the same time with one cache key and both
\* were answered with a page
SameKeyPair(c1, c2) ==
    /\ c1 # c2
    /\ reqs[c1].pc = "done" /\ reqs[c2].pc = "done"
    /\ reqs[c1].response.status = 200 /\ reqs[c2].response.status = 200
    /\ reqs[c1].route = reqs[c2].route
    /\ reqs[c1].cacheKey = reqs[c2].cacheKey

\* C26: when two requests of a data-page route with the same cache key run
\* at the same time against an unchanged store, then however their steps
\* interleave both are answered with the page a single request returns,
\* and the cache holds for the key exactly the entry a single request
\* stores.
C26_ConcurrentSameKey ==
    \A c1, c2 \in DOMAIN reqs :
        SameKeyPair(c1, c2) =>
            LET page == SinglePage(reqs[c1])
            IN  /\ reqs[c1].response.body = page
                /\ reqs[c2].response.body = page
                /\ { e \in cache : e.key = reqs[c1].cacheKey }
                       = { [key |-> reqs[c1].cacheKey, value |-> page, ex |-> CacheTtl] }

\* both requests of the list route missed and both ran the pipeline and
\* stored their page
C26_Witness ==
    /\ SameKeyPair(1, 2)
    /\ reqs[1].route = "list"
    /\ RanPipeline(reqs[1]) /\ RanPipeline(reqs[2])
    /\ Called(reqs[1], {"client.set"}) /\ Called(reqs[2], {"client.set"})

(***************************************************************************)
(* C27: cache keys                                                         *)
(***************************************************************************)
\* request r has read or written the cache under its key
UsedKey(r) == r.pc # "idle" /\ Called(r, {"client.get", "client.set"})

\* what a data-page request asks for
QueryId(r) ==
    [operation |-> r.route, slug |-> r.in.slug,
     week |-> IF r.route = "weekly" THEN r.in.week ELSE << >>,
     region |-> r.region, page |-> r.page, limit |-> r.limit]

\* the list request r was answered with the text the cache held
AnsweredFromCache(r) ==
    /\ r.pc = "done" /\ r.route = "list" /\ r.response.status = 200
    /\ ~RanPipeline(r)

\* C27: two data-page requests that differ in operation, slug, week,
\* region, page or limit never read or write the cache under the same key,
\* and a request answered from the cache is answered with the page of its
\* own query.
C27_KeysInjective ==
    /\ \A c1, c2 \in DOMAIN reqs :
           (UsedKey(reqs[c1]) /\ UsedKey(reqs[c2])
              /\ QueryId(reqs[c1]) # QueryId(reqs[c2])) =>
               reqs[c1].cacheKey # reqs[c2].cacheKey
    /\ \A c \in DOMAIN reqs :
           AnsweredFromCache(reqs[c]) => reqs[c].response.body = SinglePage(reqs[c])

\* a request of the weekly route for the collection top-sellers and a
\* request of the list route for the collection 2025W31:top-sellers, both
\* for region US, page 1 and limit 10, have stored their pages
C27_Witness ==
    /\ Len(reqs) = 2
    /\ reqs[1].pc = "done" /\ reqs[2].pc = "done"
    /\ reqs[1].route = "weekly" /\ reqs[1].in.slug = "top-sellers"
    /\ reqs[2].route = "list" /\ reqs[2].in.slug = "2025W31:top-sellers"
    /\ reqs[1].page = reqs[2].page /\ reqs[1].limit = reqs[2].limit
    /\ Called(reqs[1], {"client.set"}) /\ Called(reqs[2], {"client.set"})
    /\ Cardinality(cache) = 2

(***************************************************************************)
(* C28: the og route and the weekly route                                  *)
(***************************************************************************)
\* request c1 of the weekly route for page 1 with limit 10 and request c2
\* of the og route ask for the same collection, week and region, and both
\* have joined their rows
SameLeaderboard(c1, c2) ==
    /\ Assembled(reqs[c1]) /\ OgHashed(reqs[c2])
    /\ reqs[c1].page = OgPage /\ reqs[c1].limit = OgLimit
    /\ reqs[c1].in.slug = reqs[c2].in.slug
    /\ reqs[c1].in.week = reqs[c2].in.week
    /\ reqs[c1].region = reqs[c2].region

\* C28: against one store, the rows the og route joins for its image are
\* the elements of page 1 with limit 10 of the weekly route for the same
\* collection, week and region, in the same order.
C28_OgRowsAreWeeklyPage ==
    \A c1, c2 \in DOMAIN reqs :
        SameLeaderboard(c1, c2) => reqs[c2].rows = reqs[c1].result.elements

\* both routes have ranked eleven offers, the last one of the store first,
\* and joined the first ten of the ranking
C28_Witness ==
    /\ SameLeaderboard(1, 2)
    /\ Len(reqs[1].ranked) = OgLimit + 1 /\ Len(reqs[2].ranked) = OgLimit + 1
    /\ Len(reqs[2].rows) = OgLimit
    /\ reqs[2].rows[1].id = OgLimit + 1

(***************************************************************************)
(* C29: fewer than ten rows                                                *)
(***************************************************************************)
\* request r of the og route joined fewer than ten rows and was not
\* answered from the registry, and no call of it was rejected or refused
ShortAndFresh(r) ==
    /\ OgHashed(r) /\ r.pc = "done"
    /\ Len(r.rows) < OgLimit
    /\ ~EndsWithStored(r)
    /\ ~Called(r, {"rejected"})
    /\ r.response.status # 400

\* C29: a request of the og route that joins fewer than ten rows and is
\* not answered from the registry is rendered all the same: when neither
\* the rendering nor the upload fails it is answered 200, with the image
\* reference or with the bytes.
C29_ShortTableStillRenders ==
    \A c \in DOMAIN reqs :
        ShortAndFresh(reqs[c]) =>
            /\ reqs[c].response.status = 200
            /\ EndsWithUploaded(reqs[c]) \/ EndsWithBytes(reqs[c])

(***************************************************************************)
(* C30: POST /subscribe                                                    *)
(***************************************************************************)
\* the stored subscriptions of a user for an endpoint
SubscriptionsOf(userId, endpoint) ==
    { k \in 1..Len(pushSubscriptions) :
        pushSubscriptions[k].userId = userId /\ pushSubscriptions[k].endpoint = endpoint }

\* request r of POST /subscribe was answered with the id of a subscription
Subscribed(r) == r.pc = "done" /\ r.route = "subscribe" /\ r.response.status = 200

\* C30: however POST /subscribe requests follow or overlap each other, the
\* store holds at most one subscription for each user and endpoint, and
\* every request that is answered with an id is answered with the id of
\* the subscription the store holds for its user and endpoint.
C30_SubscribeIdempotent ==
    /\ \A i, j \in 1..Len(pushSubscriptions) :
           (pushSubscriptions[i].userId = pushSubscriptions[j].userId
              /\ pushSubscriptions[i].endpoint = pushSubscriptions[j].endpoint) => i = j
    /\ \A c \in DOMAIN reqs :
           Subscribed(reqs[c]) =>
               \A k \in SubscriptionsOf(reqs[c].userId, reqs[c].endpoint) :
                   reqs[c].response.body.id = pushSubscriptions[k].id

=============================================================================
